---- MODULE Spec2Model ----
(***************************************************************************)
(* Client-side protocol layer of the dex-v4 JS bindings: the fee-tier      *)
(* schedule (fees.ts), the fixed-point price / size conversion (utils.ts), *)
(* the instruction codec (raw_instructions.ts, instructions.ts) and the    *)
(* bindings that assemble instructions (bindings.ts).                      *)
(*                                                                         *)
(* The library is a set of pure functions.  The state machine is a caller  *)
(* that, from "idle", invokes one exported function on inputs drawn from   *)
(* bounded sets, records the call and what it returned (or that it threw), *)
(* and goes back to "idle".                                                *)
(***************************************************************************)
EXTENDS Integers, Sequences, FiniteSets, TLC

\* derived is a history variable: the derivations of the latest call that
\* derived an address, kept while the caller goes on (see DerivationsOfCall).
VARIABLES pc, op, args, ret, derived

vars == <<pc, op, args, ret, derived>>

(***************************************************************************)
(* JavaScript values                                                       *)
(***************************************************************************)

\* A JS number that is an integer, +Infinity or NaN.
Fin(n) == [t |-> "fin", v |-> n]
Infinity == [t |-> "inf", v |-> 0]
NaN == [t |-> "nan", v |-> 0]

\* a < b on JS numbers: false as soon as one side is NaN, which is what
\* undefined converts to.
JsLt(a, b) ==
    CASE a.t \in {"nan", "undefined"} \/ b.t \in {"nan", "undefined"} -> FALSE
      [] a.t = "inf" -> FALSE
      [] b.t = "inf" -> TRUE
      [] OTHER -> a.v < b.v

\* a >= b on JS numbers.
JsGe(a, b) ==
    CASE a.t \in {"nan", "undefined"} \/ b.t \in {"nan", "undefined"} -> FALSE
      [] a.t = "inf" -> TRUE
      [] b.t = "inf" -> FALSE
      [] OTHER -> a.v >= b.v

\* A byte of the model has BitsPerByte bits (8 in the platform), so that the
\* widths of the wire format stay counted in bytes (a u64 is 8 bytes, the
\* binary point of a price 4 bytes) while the numbers the conversions compute
\* on fit TLC's integers.  A byte holds the tags 0..8 and every enum value.
BitsPerByte == 4
ByteBase == 2 ^ BitsPerByte
Bytes == 0..(ByteBase - 1)

Zeros(n) == [i \in 1..n |-> 0]
Ones(n) == [i \in 1..n |-> ByteBase - 1]

RECURSIVE Concat(_)
Concat(seqs) == IF seqs = <<>> THEN <<>> ELSE Head(seqs) \o Concat(Tail(seqs))

\* What a call hands back: a value, or an exception.
Returned(v) == [kind |-> "value", v |-> v]
Thrown(msg) == [kind |-> "error", v |-> msg]
NoResult == [kind |-> "none", v |-> 0]
NoArgs == [none |-> TRUE]

(***************************************************************************)
(* fees.ts                                                                 *)
(***************************************************************************)

\* The fee table.  Rates are in units of 1e-4 (taker 0.0022 is 22).
FEES ==
    [k \in 0..6 |->
        CASE k = 6 -> [taker |-> 10, maker |-> -5, srm |-> Infinity, msrm |-> Fin(1)]
          [] k = 5 -> [taker |-> 12, maker |-> -3, srm |-> Fin(1000000), msrm |-> Infinity]
          [] k = 4 -> [taker |-> 14, maker |-> -3, srm |-> Fin(100000), msrm |-> Infinity]
          [] k = 3 -> [taker |-> 16, maker |-> -3, srm |-> Fin(10000), msrm |-> Infinity]
          [] k = 2 -> [taker |-> 18, maker |-> -3, srm |-> Fin(1000), msrm |-> Infinity]
          [] k = 1 -> [taker |-> 20, maker |-> -3, srm |-> Fin(100), msrm |-> Infinity]
          [] OTHER -> [taker |-> 22, maker |-> -3, srm |-> Fin(0), msrm |-> Infinity]]

\* Object.entries(FEES): integer-like keys come out in ascending order.
FeeKeys == <<0, 1, 2, 3, 4, 5, 6>>

\* Mutant of FeeScan: the threshold test written <= instead of <, so a balance
\* equal to a threshold falls into the tier below.
RECURSIVE FeeScanInclusive(_, _)
FeeScanInclusive(i, srmBalance) ==
    IF i > Len(FeeKeys) THEN 0
    ELSE IF ~JsLt(FEES[FeeKeys[i]].srm, srmBalance) THEN FeeKeys[i] - 1
    ELSE FeeScanInclusive(i + 1, srmBalance)

\* The for loop of getFeeTier from entry i on: the first entry whose srm
\* threshold is above the balance returns its key minus one; falling off the
\* end returns 0.
RECURSIVE FeeScan(_, _)
FeeScan(i, srmBalance) ==
    IF i > Len(FeeKeys) THEN 0
    ELSE IF JsLt(srmBalance, FEES[FeeKeys[i]].srm) THEN FeeKeys[i] - 1
    ELSE FeeScan(i + 1, srmBalance)

\* Mutant of getFeeTier: the MSRM test written > 1 instead of >= 1.
getFeeTierStrictMsrm(msrmBalance, srmBalance) ==
    IF JsLt(Fin(1), msrmBalance) THEN 6 ELSE FeeScan(1, srmBalance)

getFeeTier(msrmBalance, srmBalance) ==
    IF JsGe(msrmBalance, Fin(1)) THEN 6 ELSE FeeScan(1, srmBalance)

\* getFeeRates: FEES[feeTier].fees, a TypeError when FEES has no such key.
getFeeRates(feeTier) ==
    IF feeTier \in DOMAIN FEES
    THEN Returned([taker |-> FEES[feeTier].taker, maker |-> FEES[feeTier].maker])
    ELSE Thrown("TypeError: Cannot read properties of undefined (reading 'fees')")

\* Balances tried: every SRM threshold and its neighbours up to BalanceDelta
\* away (so -1, 0, 1, 99, 100, 101, ...), and MSRM balances -1..MaxMsrm.
BalanceDelta == 1
MaxMsrm == 2

SrmBalances ==
    UNION {{FEES[k].srm.v - d, FEES[k].srm.v + d} : k \in 0..5, d \in 0..BalanceDelta}

MsrmBalances == -1..MaxMsrm

CallGetFeeTier ==
    /\ pc = "idle"
    /\ \E m \in MsrmBalances, s \in SrmBalances :
        /\ op' = "getFeeTier"
        /\ args' = [msrmBalance |-> m, srmBalance |-> s]
        /\ ret' = Returned(getFeeTier(Fin(m), Fin(s)))
    /\ pc' = "done"
    /\ UNCHANGED derived

(***************************************************************************)
(* utils.ts: fixed-point conversion                                        *)
(*                                                                         *)
(* A JS number that may carry a fraction is the exact rational n / d with  *)
(* d > 0 (the rounding error of IEEE doubles is not modelled).  A BN is an *)
(* integer.                                                                *)
(***************************************************************************)

\* Math.pow(2, 32), 2 ** 32: four bytes.
TWO_POW_32 == ByteBase ^ 4

Abs(n) == IF n < 0 THEN -n ELSE n

\* A BN object as the codec and the decoder hold it: its sign and the bytes
\* of its magnitude, least significant first and without high zero bytes, so
\* that U64_MAX and 2^128 can be written.  BN(n) is the object of the integer
\* n, BNFromLE(bytes) is new BN(bytes, "le").
RECURSIVE Digits(_)
Digits(n) == IF n = 0 THEN <<>> ELSE <<n % ByteBase>> \o Digits(n \div ByteBase)

RECURSIVE StripHighZeros(_)
StripHighZeros(le) ==
    IF le # <<>> /\ le[Len(le)] = 0 THEN StripHighZeros(SubSeq(le, 1, Len(le) - 1))
    ELSE le

BN(n) == [t |-> "bn", negative |-> n < 0, le |-> Digits(Abs(n))]
BNFromLE(bytes) == [t |-> "bn", negative |-> FALSE, le |-> StripHighZeros(bytes)]

\* new BN(number) of bn.js for the number n / d: the sign is split off and
\* the magnitude truncated, so the fraction is dropped toward zero.  (bn.js
\* asserts that the number is below 2^53; the numbers tried stay below it.)
BNFromNumber(n, d) == IF n < 0 THEN -(Abs(n) \div d) ELSE n \div d

\* BN.umod of bn.js: asserts a non-zero divisor, then the non-negative
\* remainder whatever the sign of the dividend.
UmodThrows(divisor) == divisor = 0
Umod(a, divisor) == a % divisor

\* Math.pow(10, k) as the rational <<numerator, denominator>>.
Pow10(k) == IF k >= 0 THEN <<10 ^ k, 1>> ELSE <<1, 10 ^ (-k)>>

\* Mutant of computeFp32Price: round up to the next tick.
computeFp32PriceRoundUp(market, pn, pd) ==
    LET tickSize == BNFromNumber(market.tickSize, 1)
        price == BNFromNumber(TWO_POW_32 * pn, pd)
        mul == Pow10(market.quoteDecimals - market.baseDecimals)
    IN  IF UmodThrows(tickSize) THEN Thrown("Assertion failed")
        ELSE Returned((price - Umod(price, tickSize) + tickSize) * BNFromNumber(mul[1], mul[2]))

\* computeFp32Price of js/src/utils.ts, for the UI price pn / pd.
computeFp32Price(market, pn, pd) ==
    LET tickSize == BNFromNumber(market.tickSize, 1)
        price == BNFromNumber(TWO_POW_32 * pn, pd)
        mul == Pow10(market.quoteDecimals - market.baseDecimals)
    IN  IF UmodThrows(tickSize) THEN Thrown("Assertion failed")
        ELSE Returned((price - Umod(price, tickSize)) * BNFromNumber(mul[1], mul[2]))

\* computeFp32Price of the later utils.ts (currency multipliers), for the UI
\* price pn / pd: x = xn / xd, fracX = fracXn / xd.
computeFp32PriceMultipliers(market, pn, pd) ==
    LET tickSize == BNFromNumber(market.tickSize, 1)
        decimalsMul == Pow10(market.quoteDecimals - market.baseDecimals)
        xn == pn * market.baseCurrencyMultiplier * decimalsMul[1]
        xd == pd * market.quoteCurrencyMultiplier * decimalsMul[2]
        floorX == xn \div xd
        fracXn == TWO_POW_32 * (xn - floorX * xd)
        price == BNFromNumber(xn, xd) * TWO_POW_32 + BNFromNumber(fracXn, xd)
    IN  IF UmodThrows(tickSize) THEN Thrown("Assertion failed")
        ELSE Returned(price - Umod(price, tickSize))

\* The JS remainder (n / d) % m for an integer m # 0, as a numerator over d:
\* it takes the sign of the dividend.
JsRemNum(n, d, m) ==
    IF n < 0 THEN -(Abs(n) % (Abs(m) * d)) ELSE n % (Abs(m) * d)

\* Mutant of computeSize: rounds up to the next multiple.
computeSizeRoundUp(market, sn, sd) ==
    IF market.minOrderSize = 0 THEN Returned(BNFromNumber(0, 1))
    ELSE Returned(BNFromNumber(sn - JsRemNum(sn, sd, market.minOrderSize)
                               + market.minOrderSize * sd, sd))

\* computeSize of js/src/utils.ts for the size sn / sd.  size % 0 is NaN, and
\* new BN(NaN) is new BN(NaN || 0), that is 0.
computeSize(market, sn, sd) ==
    IF market.minOrderSize = 0 THEN Returned(BNFromNumber(0, 1))
    ELSE Returned(BNFromNumber(sn - JsRemNum(sn, sd, market.minOrderSize), sd))

\* Inputs of the conversions.
MaxTick == 3
MaxDecimals == 1
MaxMultiplier == 2
MaxPriceNum == 5
MaxNegPriceNum == 3
MaxPriceDen == 2
MaxMinOrderSize == 3

TickSizes == (0..MaxTick) \cup {TWO_POW_32}
Decimals == 0..MaxDecimals
Multipliers == 1..MaxMultiplier
PriceNums == (-MaxNegPriceNum)..MaxPriceNum
PriceDens == 1..MaxPriceDen
MinOrderSizes == 0..MaxMinOrderSize

\* The fields of Market the conversions read.
Markets ==
    [tickSize : TickSizes, minOrderSize : {1},
     baseDecimals : Decimals, quoteDecimals : Decimals,
     baseCurrencyMultiplier : Multipliers, quoteCurrencyMultiplier : Multipliers]

\* Markets of the version that has no currency multipliers.
PlainMarkets ==
    {m \in Markets : m.baseCurrencyMultiplier = 1 /\ m.quoteCurrencyMultiplier = 1}

\* Markets as computeSize reads them.
SizeMarkets ==
    [tickSize : {1}, minOrderSize : MinOrderSizes,
     baseDecimals : {0}, quoteDecimals : {0},
     baseCurrencyMultiplier : {1}, quoteCurrencyMultiplier : {1}]

CallComputeFp32Price ==
    /\ pc = "idle"
    /\ \E market \in PlainMarkets, pn \in PriceNums, pd \in PriceDens :
        /\ op' = "computeFp32Price"
        /\ args' = [market |-> market, n |-> pn, d |-> pd]
        /\ ret' = computeFp32Price(market, pn, pd)
    /\ pc' = "done"
    /\ UNCHANGED derived

CallComputeFp32PriceMultipliers ==
    /\ pc = "idle"
    /\ \E market \in Markets, pn \in PriceNums, pd \in PriceDens :
        /\ op' = "computeFp32PriceMultipliers"
        /\ args' = [market |-> market, n |-> pn, d |-> pd]
        /\ ret' = computeFp32PriceMultipliers(market, pn, pd)
    /\ pc' = "done"
    /\ UNCHANGED derived

CallComputeSize ==
    /\ pc = "idle"
    /\ \E market \in SizeMarkets, sn \in PriceNums, sd \in PriceDens :
        /\ op' = "computeSize"
        /\ args' = [market |-> market, n |-> sn, d |-> sd]
        /\ ret' = computeSize(market, sn, sd)
    /\ pc' = "done"
    /\ UNCHANGED derived

(***************************************************************************)
(* Addresses                                                               *)
(*                                                                         *)
(* A PublicKey holds a BN: the big-endian bytes of the address without     *)
(* leading zeros.  An address derived by findProgramAddress is kept as the *)
(* seeds and program id it was derived from.                               *)
(***************************************************************************)

PUBLIC_KEY_LENGTH == 32

RECURSIVE StripLeadingZeros(_)
StripLeadingZeros(b) ==
    IF b # <<>> /\ Head(b) = 0 THEN StripLeadingZeros(Tail(b)) ELSE b

\* new PublicKey(buffer)
PublicKey(buffer) == [t |-> "key", bn |-> StripLeadingZeros(buffer)]

\* Stand-in for the SHA-256 digest a derived address is made of: byte j is
\* a weighted sum of the bytes j, j + 32, j + 64, ... of the input, so that
\* it depends on every seed and on the program id.
RECURSIVE WeightedSum(_, _)
WeightedSum(bytes, i) ==
    IF i > Len(bytes) THEN 0 ELSE i * bytes[i] + WeightedSum(bytes, i + 1)

Digest(bytes) ==
    [j \in 1..PUBLIC_KEY_LENGTH |->
        WeightedSum([k \in 1..(Len(bytes) \div PUBLIC_KEY_LENGTH) |->
                        bytes[(k - 1) * PUBLIC_KEY_LENGTH + j]], 1) % ByteBase]

\* PublicKey.toBuffer(): the BN zero-padded on the left to 32 bytes; for a
\* derived address, the digest of its seeds and program id.
toBuffer(key) ==
    IF key.t = "pda"
    THEN Digest(Concat(key.seeds)
                    \o Zeros(PUBLIC_KEY_LENGTH - Len(key.programId.bn))
                    \o key.programId.bn)
    ELSE Zeros(PUBLIC_KEY_LENGTH - Len(key.bn)) \o key.bn

\* An optional argument that was not passed.
Undefined == [t |-> "undefined"]

\* PublicKey.findProgramAddress(seeds, programId)[0]
findProgramAddress(seeds, programId) ==
    [t |-> "pda", seeds |-> seeds, programId |-> programId]

\* PublicKey.findProgramAddress(seeds, programId)[1], the bump: the first
\* of 255, 254, ... for which the digest of the seeds, the bump and the
\* program id is a valid derived address.  Stand-in: a byte that is a
\* function of the seeds and of the program id.
findProgramAddressBump(seeds, programId) ==
    (ByteBase - 1) - (WeightedSum(Concat(seeds) \o toBuffer(programId), 1) % ByteBase)

\* The address whose i-th byte is 1 and whose other bytes are 0.
UnitKey(i) == PublicKey([j \in 1..PUBLIC_KEY_LENGTH |-> IF j = i THEN 1 ELSE 0])

\* SystemProgram.programId is the all-zero address.
SystemProgramId == PublicKey(Zeros(PUBLIC_KEY_LENGTH))
TOKEN_PROGRAM_ID == UnitKey(2)
DEX_ID == UnitKey(3)
ASSOCIATED_TOKEN_PROGRAM_ID == UnitKey(16)
SYSVAR_RENT_PUBKEY == UnitKey(17)

\* Buffer.compare: -1, 0 or 1 by the first byte that differs.
RECURSIVE BufferCompare(_, _)
BufferCompare(a, b) ==
    IF a = <<>> /\ b = <<>> THEN 0
    ELSE IF a = <<>> THEN -1
    ELSE IF b = <<>> THEN 1
    ELSE IF Head(a) < Head(b) THEN -1
    ELSE IF Head(a) > Head(b) THEN 1
    ELSE BufferCompare(Tail(a), Tail(b))

\* Array.prototype.sort(Buffer.compare): a stable sort, here by insertion.
RECURSIVE InsertSorted(_, _)
InsertSorted(sorted, e) ==
    IF sorted = <<>> THEN <<e>>
    ELSE IF BufferCompare(e, Head(sorted)) < 0 THEN <<e>> \o sorted
    ELSE <<Head(sorted)>> \o InsertSorted(Tail(sorted), e)

RECURSIVE SortBuffers(_)
SortBuffers(list) ==
    IF list = <<>> THEN <<>>
    ELSE InsertSorted(SortBuffers(SubSeq(list, 1, Len(list) - 1)), list[Len(list)])

(***************************************************************************)
(* raw_instructions.ts: the instruction codec                              *)
(***************************************************************************)

AccountKey(pubkey, isSigner, isWritable) ==
    [pubkey |-> pubkey, isSigner |-> isSigner, isWritable |-> isWritable]

\* BN.toArray("le", width): the magnitude, least significant byte first and
\* zero-padded to width bytes; the assertion fails when the magnitude needs
\* more than width bytes.
ToArrayLE(v, width) == SubSeq(v.le \o Zeros(width - Len(v.le)), 1, width)

\* Mutant of ToArrayThrows: no length assertion, the high bytes are dropped.
ToArrayNeverThrows(v, width) == FALSE

ToArrayThrows(v, width) == Len(v.le) > width

\* borsh's serialize of one field.  A schema is a sequence of
\* <<name, type, width in bytes>>, the type being
\*   "u8"      a number written by writeUInt8, which throws out of range,
\*   "u64", "u128"  a BN written by toArray("le", width),
\*   "array"   [n], a fixed-length byte array,
\*   "u64s"    ["u64", n], n BNs of 8 bytes each (width is 8 n),
\*   "unknown" a type string the writer has no method for ("[5]", "[32]"):
\*             the call of the missing method throws a TypeError.
FieldThrows(field, value) ==
    CASE field[2] = "u8" -> value < 0 \/ value >= ByteBase
      [] field[2] = "array" -> Len(value) # field[3]
      [] field[2] = "u64s" ->
            \/ Len(value) # field[3] \div 8
            \/ \E i \in 1..Len(value) : ToArrayThrows(value[i], 8)
      [] field[2] = "unknown" -> TRUE
      [] OTHER -> ToArrayThrows(value, field[3])

FieldBytes(field, value) ==
    CASE field[2] = "u8" -> <<value>>
      [] field[2] = "array" -> value
      [] field[2] = "u64s" -> Concat([i \in 1..Len(value) |-> ToArrayLE(value[i], 8)])
      [] OTHER -> ToArrayLE(value, field[3])

\* serialize(schema, obj): the fields in schema order.
RECURSIVE SerializeFrom(_, _, _)
SerializeFrom(schema, obj, i) ==
    IF i > Len(schema) THEN <<>>
    ELSE FieldBytes(schema[i], obj[schema[i][1]]) \o SerializeFrom(schema, obj, i + 1)

SerializeThrows(schema, obj) ==
    \E i \in 1..Len(schema) : FieldThrows(schema[i], obj[schema[i][1]])

\* new TransactionInstruction({keys, programId, data}), or the exception of
\* serialize().
TransactionInstruction(keys, programId, schema, obj) ==
    IF SerializeThrows(schema, obj) THEN Thrown("serialize")
    ELSE Returned([keys |-> keys, programId |-> programId,
                   data |-> SerializeFrom(schema, obj, 1)])

consumeEventsInstructionSchema == <<<<"tag", "u64", 8>>, <<"maxIterations", "u64", 8>>>>

\* new consumeEventsInstruction(obj)
consumeEventsInstruction(obj) == [tag |-> BN(3), maxIterations |-> obj.maxIterations]

\* The account roles consumeEventsInstruction.getInstruction builds.
\* Mutant of consumeEventsKeys: a user account that is already in the list
\* gets no second role.
consumeEventsKeysOncePerAccount(market, orderbook, eventQueue, rewardTarget, userAccounts) ==
    << AccountKey(market, FALSE, TRUE),
       AccountKey(orderbook, FALSE, TRUE),
       AccountKey(eventQueue, FALSE, TRUE),
       AccountKey(rewardTarget, FALSE, TRUE) >>
    \o [i \in 1..Cardinality({userAccounts[j] : j \in 1..Len(userAccounts)}) |->
            AccountKey(userAccounts[i], FALSE, TRUE)]

consumeEventsKeys(market, orderbook, eventQueue, rewardTarget, userAccounts) ==
    << AccountKey(market, FALSE, TRUE),
       AccountKey(orderbook, FALSE, TRUE),
       AccountKey(eventQueue, FALSE, TRUE),
       AccountKey(rewardTarget, FALSE, TRUE) >>
    \o [i \in 1..Len(userAccounts) |-> AccountKey(userAccounts[i], FALSE, TRUE)]

\* consumeEventsInstruction.getInstruction
consumeEventsGetInstruction(self, programId, market, orderbook, eventQueue, rewardTarget, userAccounts) ==
    TransactionInstruction(
        consumeEventsKeys(market, orderbook, eventQueue, rewardTarget, userAccounts),
        programId, consumeEventsInstructionSchema, self)

\* Mutant of newOrderInstructionSchema: the side is written before the
\* prices and quantities.
newOrderInstructionSchemaSideFirst ==
    << <<"tag", "u64", 8>>, <<"side", "u8", 1>>, <<"limitPrice", "u64", 8>>,
       <<"maxBaseQty", "u64", 8>>, <<"maxQuoteQty", "u64", 8>>,
       <<"matchLimit", "u64", 8>>, <<"orderType", "u8", 1>>,
       <<"selfTradeBehavior", "u8", 1>>, <<"padding", "array", 5>> >>

newOrderInstructionSchema ==
    << <<"tag", "u64", 8>>, <<"limitPrice", "u64", 8>>, <<"maxBaseQty", "u64", 8>>,
       <<"maxQuoteQty", "u64", 8>>, <<"matchLimit", "u64", 8>>, <<"side", "u8", 1>>,
       <<"orderType", "u8", 1>>, <<"selfTradeBehavior", "u8", 1>>,
       <<"padding", "array", 5>> >>

\* new newOrderInstruction(obj) of raw_instructions.ts
newOrderInstruction(obj) ==
    [tag |-> BN(1), limitPrice |-> obj.limitPrice, maxBaseQty |-> obj.maxBaseQty,
     maxQuoteQty |-> obj.maxQuoteQty, matchLimit |-> obj.matchLimit,
     side |-> obj.side, orderType |-> obj.orderType,
     selfTradeBehavior |-> obj.selfTradeBehavior, padding |-> Zeros(5)]

\* The twelve fixed account roles of newOrderInstruction.getInstruction.
newOrderFixedKeys(splTokenProgram, systemProgram, market, orderbook, eventQueue, bids, asks, baseVault, quoteVault, user, userTokenAccount, userOwner) ==
    << AccountKey(splTokenProgram, FALSE, FALSE),
       AccountKey(systemProgram, FALSE, FALSE),
       AccountKey(market, FALSE, TRUE),
       AccountKey(orderbook, FALSE, TRUE),
       AccountKey(eventQueue, FALSE, TRUE),
       AccountKey(bids, FALSE, TRUE),
       AccountKey(asks, FALSE, TRUE),
       AccountKey(baseVault, FALSE, TRUE),
       AccountKey(quoteVault, FALSE, TRUE),
       AccountKey(user, FALSE, TRUE),
       AccountKey(userTokenAccount, FALSE, TRUE),
       AccountKey(userOwner, TRUE, TRUE) >>

\* Mutant of discountTokenKeys: the role is pushed whether or not the
\* account was passed.
discountTokenKeysAlways(discountTokenAccount) ==
    <<AccountKey(discountTokenAccount, FALSE, FALSE)>>

\* if (!!discountTokenAccount) keys.push(...)
discountTokenKeys(discountTokenAccount) ==
    IF discountTokenAccount # Undefined
    THEN <<AccountKey(discountTokenAccount, FALSE, FALSE)>>
    ELSE <<>>

\* newOrderInstruction.getInstruction of raw_instructions.ts
newOrderGetInstruction(self, programId, splTokenProgram, systemProgram, market, orderbook, eventQueue, bids, asks, baseVault, quoteVault, user, userTokenAccount, userOwner, discountTokenAccount) ==
    TransactionInstruction(
        newOrderFixedKeys(splTokenProgram, systemProgram, market, orderbook,
                          eventQueue, bids, asks, baseVault, quoteVault, user,
                          userTokenAccount, userOwner)
            \o discountTokenKeys(discountTokenAccount),
        programId, newOrderInstructionSchema, self)

\* The classes without a field: the schema is the tag alone.
closeAccountInstructionSchema == << <<"tag", "u64", 8>> >>
closeAccountInstruction == [tag |-> BN(7)]

closeAccountGetInstruction(self, programId, user, userOwner, targetLamportsAccount) ==
    TransactionInstruction(
        << AccountKey(user, FALSE, TRUE),
           AccountKey(userOwner, TRUE, FALSE),
           AccountKey(targetLamportsAccount, FALSE, TRUE) >>,
        programId, closeAccountInstructionSchema, self)

cancelOrderInstructionSchema ==
    << <<"tag", "u64", 8>>, <<"orderIndex", "u64", 8>>, <<"orderId", "u128", 16>> >>

\* Mutant of cancelOrderInstruction: the tag is read from the caller's object.
cancelOrderInstructionTagFromObj(obj) ==
    [tag |-> obj.tag, orderIndex |-> obj.orderIndex, orderId |-> obj.orderId]

cancelOrderInstruction(obj) ==
    [tag |-> BN(2), orderIndex |-> obj.orderIndex, orderId |-> obj.orderId]

cancelOrderGetInstruction(self, programId, market, orderbook, eventQueue, bids, asks, user, userOwner) ==
    TransactionInstruction(
        << AccountKey(market, FALSE, FALSE),
           AccountKey(orderbook, FALSE, TRUE),
           AccountKey(eventQueue, FALSE, TRUE),
           AccountKey(bids, FALSE, TRUE),
           AccountKey(asks, FALSE, TRUE),
           AccountKey(user, FALSE, TRUE),
           AccountKey(userOwner, TRUE, FALSE) >>,
        programId, cancelOrderInstructionSchema, self)

settleInstructionSchema == << <<"tag", "u64", 8>> >>
settleInstruction == [tag |-> BN(4)]

settleGetInstruction(self, programId, splTokenProgram, market, baseVault, quoteVault, marketSigner, user, userOwner, destinationBaseAccount, destinationQuoteAccount) ==
    TransactionInstruction(
        << AccountKey(splTokenProgram, FALSE, FALSE),
           AccountKey(market, FALSE, FALSE),
           AccountKey(baseVault, FALSE, TRUE),
           AccountKey(quoteVault, FALSE, TRUE),
           AccountKey(marketSigner, FALSE, FALSE),
           AccountKey(user, FALSE, TRUE),
           AccountKey(userOwner, TRUE, FALSE),
           AccountKey(destinationBaseAccount, FALSE, TRUE),
           AccountKey(destinationQuoteAccount, FALSE, TRUE) >>,
        programId, settleInstructionSchema, self)

initializeAccountInstructionSchema ==
    << <<"tag", "u64", 8>>, <<"market", "array", 32>>, <<"maxOrders", "u64", 8>> >>

initializeAccountInstruction(obj) ==
    [tag |-> BN(5), market |-> obj.market, maxOrders |-> obj.maxOrders]

initializeAccountGetInstruction(self, programId, systemProgram, user, userOwner, feePayer) ==
    TransactionInstruction(
        << AccountKey(systemProgram, FALSE, FALSE),
           AccountKey(user, FALSE, TRUE),
           AccountKey(userOwner, TRUE, FALSE),
           AccountKey(feePayer, TRUE, TRUE) >>,
        programId, initializeAccountInstructionSchema, self)

closeMarketInstructionSchema == << <<"tag", "u64", 8>> >>
closeMarketInstruction == [tag |-> BN(8)]

closeMarketGetInstruction(self, programId, market, baseVault, quoteVault, orderbook, eventQueue, bids, asks, marketAdmin, targetLamportsAccount) ==
    TransactionInstruction(
        << AccountKey(market, FALSE, TRUE),
           AccountKey(baseVault, FALSE, TRUE),
           AccountKey(quoteVault, FALSE, TRUE),
           AccountKey(orderbook, FALSE, TRUE),
           AccountKey(eventQueue, FALSE, TRUE),
           AccountKey(bids, FALSE, TRUE),
           AccountKey(asks, FALSE, TRUE),
           AccountKey(marketAdmin, TRUE, FALSE),
           AccountKey(targetLamportsAccount, FALSE, TRUE) >>,
        programId, closeMarketInstructionSchema, self)

sweepFeesInstructionSchema == << <<"tag", "u64", 8>> >>
sweepFeesInstruction == [tag |-> BN(6)]

sweepFeesGetInstruction(self, programId, market, marketSigner, marketAdmin, quoteVault, destinationTokenAccount, splTokenProgram) ==
    TransactionInstruction(
        << AccountKey(market, FALSE, TRUE),
           AccountKey(marketSigner, FALSE, FALSE),
           AccountKey(marketAdmin, TRUE, FALSE),
           AccountKey(quoteVault, FALSE, TRUE),
           AccountKey(destinationTokenAccount, FALSE, TRUE),
           AccountKey(splTokenProgram, FALSE, FALSE) >>,
        programId, sweepFeesInstructionSchema, self)

createMarketInstructionSchema ==
    << <<"tag", "u64", 8>>, <<"signerNonce", "u64", 8>>,
       <<"minBaseOrderSize", "u64", 8>>, <<"tickSize", "u64", 8>>,
       <<"crankerReward", "u64", 8>>, <<"feeTierThresholds", "u64s", 48>>,
       <<"feeTierTakerBpsRates", "u64s", 56>>,
       <<"feeTierMakerBpsRebates", "u64s", 56>> >>

createMarketInstruction(obj) ==
    [tag |-> BN(0), signerNonce |-> obj.signerNonce,
     minBaseOrderSize |-> obj.minBaseOrderSize, tickSize |-> obj.tickSize,
     crankerReward |-> obj.crankerReward,
     feeTierThresholds |-> obj.feeTierThresholds,
     feeTierTakerBpsRates |-> obj.feeTierTakerBpsRates,
     feeTierMakerBpsRebates |-> obj.feeTierMakerBpsRebates]

createMarketGetInstruction(self, programId, market, orderbook, baseVault, quoteVault, marketAdmin, eventQueue, asks, bids) ==
    TransactionInstruction(
        << AccountKey(market, FALSE, TRUE),
           AccountKey(orderbook, FALSE, TRUE),
           AccountKey(baseVault, FALSE, FALSE),
           AccountKey(quoteVault, FALSE, FALSE),
           AccountKey(marketAdmin, FALSE, FALSE),
           AccountKey(eventQueue, FALSE, TRUE),
           AccountKey(asks, FALSE, TRUE),
           AccountKey(bids, FALSE, TRUE) >>,
        programId, createMarketInstructionSchema, self)

\* The nine classes of raw_instructions.ts by operation: new X(obj) and
\* X.schema.
RawInstruction(class, obj) ==
    CASE class = "createMarket" -> createMarketInstruction(obj)
      [] class = "newOrder" -> newOrderInstruction(obj)
      [] class = "cancelOrder" -> cancelOrderInstruction(obj)
      [] class = "consumeEvents" -> consumeEventsInstruction(obj)
      [] class = "settle" -> settleInstruction
      [] class = "initializeAccount" -> initializeAccountInstruction(obj)
      [] class = "sweepFees" -> sweepFeesInstruction
      [] class = "closeAccount" -> closeAccountInstruction
      [] class = "closeMarket" -> closeMarketInstruction

RawSchema(class) ==
    CASE class = "createMarket" -> createMarketInstructionSchema
      [] class = "newOrder" -> newOrderInstructionSchema
      [] class = "cancelOrder" -> cancelOrderInstructionSchema
      [] class = "consumeEvents" -> consumeEventsInstructionSchema
      [] class = "settle" -> settleInstructionSchema
      [] class = "initializeAccount" -> initializeAccountInstructionSchema
      [] class = "sweepFees" -> sweepFeesInstructionSchema
      [] class = "closeAccount" -> closeAccountInstructionSchema
      [] class = "closeMarket" -> closeMarketInstructionSchema

\* The newOrderInstruction the later bindings.ts constructs with clientOrderId
\* and hasDiscountTokenAccount: its class is not among the sources; it keeps
\* the account roles of newOrderInstruction.getInstruction and carries its
\* fields, the presence flag among them, unserialized.
newOrderInstructionClientId(obj) ==
    [tag |-> BN(1), limitPrice |-> obj.limitPrice, maxBaseQty |-> obj.maxBaseQty,
     maxQuoteQty |-> obj.maxQuoteQty, matchLimit |-> obj.matchLimit,
     side |-> obj.side, orderType |-> obj.orderType,
     selfTradeBehavior |-> obj.selfTradeBehavior,
     clientOrderId |-> obj.clientOrderId,
     hasDiscountTokenAccount |-> obj.hasDiscountTokenAccount]

newOrderClientIdGetInstruction(self, programId, splTokenProgram, systemProgram, market, orderbook, eventQueue, bids, asks, baseVault, quoteVault, user, userTokenAccount, userOwner, discountTokenAccount) ==
    Returned([keys |-> newOrderFixedKeys(splTokenProgram, systemProgram, market,
                                         orderbook, eventQueue, bids, asks,
                                         baseVault, quoteVault, user,
                                         userTokenAccount, userOwner)
                           \o discountTokenKeys(discountTokenAccount),
              programId |-> programId, fields |-> self])

\* The consumeEventsInstruction the later bindings.ts constructs with
\* {maxIterations, noOpErr}: its class is not among the sources; it keeps the
\* account roles of consumeEventsInstruction.getInstruction and carries its
\* fields unserialized.
consumeEventsInstructionNoOpErr(obj) ==
    [tag |-> BN(3), maxIterations |-> obj.maxIterations, noOpErr |-> obj.noOpErr]

consumeEventsNoOpErrGetInstruction(self, programId, market, orderbook, eventQueue, rewardTarget, userAccounts) ==
    Returned([keys |-> consumeEventsKeys(market, orderbook, eventQueue,
                                         rewardTarget, userAccounts),
              programId |-> programId, fields |-> self])

(***************************************************************************)
(* instructions.ts: the hand-written codec                                 *)
(***************************************************************************)

legacyNewOrderInstructionSchema ==
    << <<"tag", "u8", 1>>, <<"side", "u8", 1>>, <<"limitPrice", "u64", 8>>,
       <<"maxBaseQty", "u64", 8>>, <<"maxQuoteQty", "u64", 8>>,
       <<"orderType", "u8", 1>>, <<"selfTradeBehaviour", "u8", 1>>,
       <<"matchLimit", "u64", 8>> >>

\* new newOrderInstruction(obj) of instructions.ts
legacyNewOrderInstruction(obj) ==
    [tag |-> 1, side |-> obj.side, limitPrice |-> obj.limitPrice,
     maxBaseQty |-> obj.maxBaseQty, maxQuoteQty |-> obj.maxQuoteQty,
     orderType |-> obj.orderType, selfTradeBehaviour |-> obj.selfTradeBehaviour,
     matchLimit |-> obj.matchLimit]

\* newOrderInstruction.getInstruction of instructions.ts: fourteen fixed
\* roles, then the discount token account when it was passed.
legacyNewOrderGetInstruction(self, dexId, aaobId, market, marketSigner, orderbook, eventQueue, bids, asks, baseVault, quoteVault, user, userTokenAccount, userOwner, discountTokenAccount) ==
    TransactionInstruction(
        << AccountKey(aaobId, FALSE, FALSE),
           AccountKey(TOKEN_PROGRAM_ID, FALSE, FALSE),
           AccountKey(SystemProgramId, FALSE, FALSE),
           AccountKey(market, FALSE, TRUE),
           AccountKey(marketSigner, FALSE, FALSE),
           AccountKey(orderbook, FALSE, TRUE),
           AccountKey(eventQueue, FALSE, TRUE),
           AccountKey(bids, FALSE, TRUE),
           AccountKey(asks, FALSE, TRUE),
           AccountKey(baseVault, FALSE, TRUE),
           AccountKey(quoteVault, FALSE, TRUE),
           AccountKey(user, FALSE, TRUE),
           AccountKey(userTokenAccount, FALSE, TRUE),
           AccountKey(userOwner, TRUE, TRUE) >>
        \o (IF discountTokenAccount # Undefined
            THEN <<AccountKey(discountTokenAccount, FALSE, FALSE)>>
            ELSE <<>>),
        dexId, legacyNewOrderInstructionSchema, self)

\* The nine classes of instructions.ts by operation: the tag the constructor
\* sets and the schema.
legacyInstructions ==
    [createMarket |->
        [tag |-> 0,
         schema |-> << <<"tag", "u8", 1>>, <<"signerNonce", "u8", 1>>,
                       <<"minBaseOrderSize", "u64", 8>> >>],
     newOrder |-> [tag |-> 1, schema |-> legacyNewOrderInstructionSchema],
     cancelOrder |->
        [tag |-> 2,
         schema |-> << <<"tag", "u8", 1>>, <<"orderIndex", "u64", 8>>,
                       <<"orderId", "u128", 16>> >>],
     consumeEvents |->
        [tag |-> 3,
         schema |-> << <<"tag", "u8", 1>>, <<"maxIteration", "u64", 8>> >>],
     settle |-> [tag |-> 4, schema |-> << <<"tag", "u8", 1>> >>],
     initializeAccount |->
        [tag |-> 5,
         schema |-> << <<"tag", "u8", 1>>, <<"market", "array", 32>>,
                       <<"maxOrders", "u64", 8>> >>],
     sweepFees |-> [tag |-> 6, schema |-> << <<"tag", "u8", 1>> >>],
     closeAccount |-> [tag |-> 7, schema |-> << <<"tag", "u8", 1>> >>],
     closeMarket |-> [tag |-> 8, schema |-> << <<"tag", "u8", 1>> >>]]

\* The nine classes of the generated codec whose tag is a u8 (an earlier
\* raw_instructions.ts).  Its byte arrays are declared by the strings "[5]"
\* and "[32]", for which borsh's writer has no method.
rawInstructionsU8Tag ==
    [createMarket |->
        [tag |-> 0,
         schema |-> << <<"tag", "u8", 1>>, <<"signerNonce", "u64", 8>>,
                       <<"minBaseOrderSize", "u64", 8>>,
                       <<"priceBitmask", "u64", 8>>,
                       <<"crankerReward", "u64", 8>> >>],
     newOrder |->
        [tag |-> 1,
         schema |-> << <<"tag", "u8", 1>>, <<"limitPrice", "u64", 8>>,
                       <<"maxBaseQty", "u64", 8>>, <<"maxQuoteQty", "u64", 8>>,
                       <<"matchLimit", "u64", 8>>, <<"side", "u8", 1>>,
                       <<"orderType", "u8", 1>>,
                       <<"selfTradeBehavior", "u8", 1>>,
                       <<"padding", "unknown", 5>> >>],
     cancelOrder |->
        [tag |-> 2,
         schema |-> << <<"tag", "u8", 1>>, <<"orderIndex", "u64", 8>>,
                       <<"orderId", "u128", 16>> >>],
     consumeEvents |->
        [tag |-> 3,
         schema |-> << <<"tag", "u8", 1>>, <<"maxIterations", "u64", 8>> >>],
     settle |-> [tag |-> 4, schema |-> << <<"tag", "u8", 1>> >>],
     initializeAccount |->
        [tag |-> 5,
         schema |-> << <<"tag", "u8", 1>>, <<"market", "unknown", 32>>,
                       <<"maxOrders", "u64", 8>> >>],
     sweepFees |-> [tag |-> 6, schema |-> << <<"tag", "u8", 1>> >>],
     closeAccount |-> [tag |-> 7, schema |-> << <<"tag", "u8", 1>> >>],
     closeMarket |-> [tag |-> 8, schema |-> << <<"tag", "u8", 1>> >>]]

\* new X(obj) of these two files: the constructor sets the tag itself and
\* copies each other field of the schema from obj.
FieldNames(schema) == {schema[i][1] : i \in 1..Len(schema)}

NewInstruction(class, obj) ==
    [f \in FieldNames(class.schema) |-> IF f = "tag" THEN class.tag ELSE obj[f]]

\* X.serialize(): the payload, or the exception of borsh.
Serialize(schema, self) ==
    IF SerializeThrows(schema, self) THEN Thrown("serialize")
    ELSE Returned(SerializeFrom(schema, self, 1))

(***************************************************************************)
(* bindings.ts                                                             *)
(***************************************************************************)

\* The loaded Market the bindings read their addresses from.
TheMarket ==
    [address |-> UnitKey(4), orderbookAddress |-> UnitKey(5),
     eventQueueAddress |-> UnitKey(6), bidsAddress |-> UnitKey(7),
     asksAddress |-> UnitKey(8), baseVault |-> UnitKey(9),
     quoteVault |-> UnitKey(10), programId |-> UnitKey(11)]

RewardTarget == UnitKey(12)

\* comsumEvents of js/src/bindings.ts: the user accounts are handed over in
\* the caller's order.
comsumEvents(market, rewardTarget, userAccounts, maxIterations) ==
    consumeEventsGetInstruction(
        consumeEventsInstruction([maxIterations |-> maxIterations]),
        DEX_ID, market.address, market.orderbookAddress, market.eventQueueAddress,
        rewardTarget, userAccounts)

\* userAccounts.map((e) => e.toBuffer()) and buffers.map((e) => new PublicKey(e))
Buffers(keys) == [i \in 1..Len(keys) |-> toBuffer(keys[i])]
PublicKeys(buffers) == [i \in 1..Len(buffers) |-> PublicKey(buffers[i])]

\* consumeEvents of the later bindings.ts: the user accounts are sorted by
\* their bytes first.
consumeEvents(market, rewardTarget, userAccounts, maxIterations, noOpErr) ==
    consumeEventsNoOpErrGetInstruction(
        consumeEventsInstructionNoOpErr([maxIterations |-> maxIterations, noOpErr |-> noOpErr]),
        market.programId, market.address, market.orderbookAddress,
        market.eventQueueAddress, rewardTarget,
        PublicKeys(SortBuffers(Buffers(userAccounts))))

\* new BN(Number.MAX_SAFE_INTEGER), 2^53 - 1: six bytes and five bits of the
\* seventh.
MAX_SAFE_INTEGER == BNFromLE(Ones(6) \o <<2 ^ ((5 * BitsPerByte) \div 8) - 1>>)

\* new BN(U64_MAX), U64_MAX being "18446744073709551615"
U64_MAX == BNFromLE(Ones(8))

\* Math.ceil(n / d)
Ceil(n, d) == -((-n) \div d)

\* placeOrder of js/src/bindings.ts, for the limit price pn / pd.
placeOrder(market, side, pn, pd, size, type, selfTradeBehaviour, ownerTokenAccount, owner, discountTokenAccount) ==
    LET userAccount ==
            findProgramAddress(<<toBuffer(market.address), toBuffer(owner)>>, DEX_ID)
    IN  newOrderGetInstruction(
            newOrderInstruction(
                [side |-> side,
                 limitPrice |-> BN(BNFromNumber(pn * TWO_POW_32, pd)),
                 maxBaseQty |-> BN(BNFromNumber(size, 1)),
                 maxQuoteQty |-> BN(BNFromNumber(Ceil(size * pn, pd), 1)),
                 orderType |-> type,
                 selfTradeBehavior |-> selfTradeBehaviour,
                 matchLimit |-> MAX_SAFE_INTEGER]),
            DEX_ID, TOKEN_PROGRAM_ID, SystemProgramId, market.address,
            market.orderbookAddress, market.eventQueueAddress, market.bidsAddress,
            market.asksAddress, market.baseVault, market.quoteVault, userAccount,
            ownerTokenAccount, owner, discountTokenAccount)

\* placeOrder of the later bindings.ts, for the limit price pn / pd.  The
\* optional BN arguments are <<>> when not passed and <<v>> when passed;
\* randomId is what crypto.randomBytes(16) yields when no clientOrderId is.
placeOrderClientId(market, side, pn, pd, size, type, selfTradeBehaviour, ownerTokenAccount, owner, clientOrderId, discountTokenAccount, maxBaseQty, maxQuoteQty, randomId) ==
    LET userAccount ==
            findProgramAddress(<<toBuffer(market.address), toBuffer(owner)>>,
                               market.programId)
        orderId == IF clientOrderId = <<>> THEN randomId ELSE clientOrderId[1]
        priceFp32 == computeFp32PriceMultipliers(market, pn, pd)
    IN  IF priceFp32.kind = "error" THEN priceFp32
        ELSE newOrderClientIdGetInstruction(
            newOrderInstructionClientId(
                [side |-> side,
                 limitPrice |-> BN(priceFp32.v),
                 maxBaseQty |->
                     IF maxBaseQty # <<>> THEN maxBaseQty[1]
                     ELSE BN(BNFromNumber(size * market.baseCurrencyMultiplier, 1)),
                 maxQuoteQty |->
                     IF maxQuoteQty # <<>> THEN maxQuoteQty[1] ELSE U64_MAX,
                 orderType |-> type,
                 selfTradeBehavior |-> selfTradeBehaviour,
                 matchLimit |-> MAX_SAFE_INTEGER,
                 clientOrderId |-> orderId,
                 hasDiscountTokenAccount |->
                     IF discountTokenAccount = Undefined THEN 0 ELSE 1]),
            market.programId, TOKEN_PROGRAM_ID, SystemProgramId, market.address,
            market.orderbookAddress, market.eventQueueAddress, market.bidsAddress,
            market.asksAddress, market.baseVault, market.quoteVault, userAccount,
            ownerTokenAccount, owner, discountTokenAccount)

\* Inputs: lists of at most MaxUserAccounts addresses that differ in their
\* first and last bytes.
MaxUserAccounts == 3
MaxIterations == 1

UserAccountKeys ==
    {PublicKey(<<a>> \o Zeros(PUBLIC_KEY_LENGTH - 2) \o <<b>>) :
        a \in {0, 1}, b \in {0, ByteBase - 1}}

UserAccountLists == UNION {[1..n -> UserAccountKeys] : n \in 0..MaxUserAccounts}

CallComsumEvents ==
    /\ pc = "idle"
    /\ \E userAccounts \in UserAccountLists, maxIterations \in 1..MaxIterations :
        /\ op' = "comsumEvents"
        /\ args' = [userAccounts |-> userAccounts, maxIterations |-> maxIterations]
        /\ ret' = comsumEvents(TheMarket, RewardTarget, userAccounts, BN(maxIterations))
    /\ pc' = "done"
    /\ UNCHANGED derived

CallConsumeEvents ==
    /\ pc = "idle"
    /\ \E userAccounts \in UserAccountLists, maxIterations \in 1..MaxIterations :
        /\ op' = "consumeEvents"
        /\ args' = [userAccounts |-> userAccounts, maxIterations |-> maxIterations]
        /\ ret' = consumeEvents(TheMarket, RewardTarget, userAccounts, BN(maxIterations), 0)
    /\ pc' = "done"
    /\ UNCHANGED derived

\* Inputs of the order bindings.
MaxOrderSize == 2
Sides == {0, 1}
OrderTypes == {0, 3}
OrderPrices == {<<1, 1>>, <<3, 2>>}
Owner == UnitKey(13)
OwnerTokenAccount == UnitKey(14)
DiscountTokenAccounts == {Undefined, UnitKey(15), SystemProgramId}
OptionalBNs == {<<>>, <<BN(5)>>}

\* The markets orders are placed on: the addresses of TheMarket with the
\* conversion fields of a market whose mints have the same decimals.
OrderMarkets ==
    {m @@ TheMarket : m \in {k \in Markets : /\ k.baseDecimals = 0
                                              /\ k.quoteDecimals = 0
                                              /\ k.quoteCurrencyMultiplier = 1}}

\* TheMarket with the tick size tickSize, its mints having the same decimals.
TickMarket(tickSize) ==
    [tickSize |-> tickSize, minOrderSize |-> 1, baseDecimals |-> 0,
     quoteDecimals |-> 0, baseCurrencyMultiplier |-> 1,
     quoteCurrencyMultiplier |-> 1] @@ TheMarket

CallPlaceOrder ==
    /\ pc = "idle"
    /\ \E side \in Sides, price \in OrderPrices, size \in 1..MaxOrderSize,
          type \in OrderTypes, discountTokenAccount \in DiscountTokenAccounts,
          tickSize \in 1..MaxTick :
        /\ op' = "placeOrder"
        /\ args' = [side |-> side, n |-> price[1], d |-> price[2], size |-> size,
                    type |-> type, discountTokenAccount |-> discountTokenAccount,
                    tickSize |-> tickSize]
        /\ ret' = placeOrder(TickMarket(tickSize), side, price[1], price[2], size,
                             type, 0, OwnerTokenAccount, Owner, discountTokenAccount)
    /\ pc' = "done"
    /\ UNCHANGED derived

CallPlaceOrderClientId ==
    /\ pc = "idle"
    /\ \E market \in OrderMarkets, side \in Sides, price \in OrderPrices,
          discountTokenAccount \in DiscountTokenAccounts,
          clientOrderId \in OptionalBNs, maxBaseQty \in OptionalBNs,
          maxQuoteQty \in OptionalBNs :
        /\ op' = "placeOrderClientId"
        /\ args' = [market |-> market, side |-> side, n |-> price[1], d |-> price[2],
                    discountTokenAccount |-> discountTokenAccount,
                    clientOrderId |-> clientOrderId, maxBaseQty |-> maxBaseQty,
                    maxQuoteQty |-> maxQuoteQty]
        /\ ret' = placeOrderClientId(market, side, price[1], price[2], 1, 0, 0,
                                     OwnerTokenAccount, Owner, clientOrderId,
                                     discountTokenAccount, maxBaseQty, maxQuoteQty, BN(9))
    /\ pc' = "done"
    /\ UNCHANGED derived

\* A direct use of the codec of instructions.ts.
CallLegacyNewOrder ==
    /\ pc = "idle"
    /\ \E side \in Sides,
          limitPrice \in {BN(0), BN(TWO_POW_32), U64_MAX, BNFromLE(Zeros(8) \o <<1>>)},
          type \in OrderTypes, discountTokenAccount \in DiscountTokenAccounts :
        /\ op' = "legacyNewOrder"
        /\ args' = [side |-> side, limitPrice |-> limitPrice, type |-> type,
                    discountTokenAccount |-> discountTokenAccount]
        /\ ret' = legacyNewOrderGetInstruction(
                      legacyNewOrderInstruction(
                          [side |-> side, limitPrice |-> limitPrice,
                           maxBaseQty |-> BN(1), maxQuoteQty |-> BN(1),
                           orderType |-> type, selfTradeBehaviour |-> 0,
                           matchLimit |-> BN(1)]),
                      DEX_ID, UnitKey(16), TheMarket.address, UnitKey(17),
                      TheMarket.orderbookAddress, TheMarket.eventQueueAddress,
                      TheMarket.bidsAddress, TheMarket.asksAddress,
                      TheMarket.baseVault, TheMarket.quoteVault, UnitKey(18),
                      OwnerTokenAccount, Owner, discountTokenAccount)
    /\ pc' = "done"
    /\ UNCHANGED derived

\* Inputs of the codec.  The object handed to a constructor has every field
\* any of the classes reads, each with a value of its own, and a tag of its
\* own that no constructor reads; one field at a time takes a value at or
\* beyond the ends of its width.
Operations ==
    {"createMarket", "newOrder", "cancelOrder", "consumeEvents", "settle",
     "initializeAccount", "sweepFees", "closeAccount", "closeMarket"}

U128_MAX == BNFromLE(Ones(16))

BNProbes ==
    {BN(0), U64_MAX, BNFromLE(Zeros(8) \o <<1>>), U128_MAX, BNFromLE(Zeros(16) \o <<1>>)}

NumberProbes == {0, ByteBase - 1, ByteBase}

FeeTierList(n) == [i \in 1..n |-> BN(i)]

ListProbes ==
    {FeeTierList(6), FeeTierList(7),
     [FeeTierList(6) EXCEPT ![6] = BNFromLE(Zeros(8) \o <<1>>)]}

RawObject ==
    [tag |-> BN(9), limitPrice |-> BN(1), maxBaseQty |-> BN(2),
     maxQuoteQty |-> BN(3), matchLimit |-> BN(4), side |-> 1, orderType |-> 3,
     selfTradeBehavior |-> 2, padding |-> Zeros(5), orderIndex |-> BN(5),
     orderId |-> BN(6), maxIterations |-> BN(7),
     market |-> toBuffer(UnitKey(4)), maxOrders |-> BN(8),
     signerNonce |-> BN(10), minBaseOrderSize |-> BN(11), tickSize |-> BN(12),
     priceBitmask |-> BN(13), crankerReward |-> BN(14),
     feeTierThresholds |-> FeeTierList(6),
     feeTierTakerBpsRates |-> FeeTierList(7),
     feeTierMakerBpsRebates |-> FeeTierList(7)]

\* instructions.ts spells two fields differently and takes signerNonce as a
\* number.
LegacyObject ==
    [maxIteration |-> RawObject.maxIterations,
     selfTradeBehaviour |-> RawObject.selfTradeBehavior]
        @@ [RawObject EXCEPT !.tag = 9, !.signerNonce = 10]

NumberFields == {"side", "orderType", "selfTradeBehavior"}
LegacyNumberFields == {"side", "orderType", "selfTradeBehaviour", "signerNonce"}
ListFields == {"feeTierThresholds"}

BNFields ==
    {"limitPrice", "maxBaseQty", "maxQuoteQty", "matchLimit", "orderIndex",
     "orderId", "maxIterations", "maxOrders", "signerNonce", "minBaseOrderSize",
     "tickSize", "priceBitmask", "crankerReward"}

LegacyBNFields ==
    {"limitPrice", "maxBaseQty", "maxQuoteQty", "matchLimit", "orderIndex",
     "orderId", "maxIteration", "maxOrders", "minBaseOrderSize"}

ProbesOf(field, numberFields) ==
    IF field \in numberFields THEN NumberProbes
    ELSE IF field \in ListFields THEN ListProbes
    ELSE BNProbes

\* new X(obj).serialize() with a class of raw_instructions.ts
CallSerialize ==
    /\ pc = "idle"
    /\ \E class \in Operations, field \in BNFields \cup NumberFields \cup ListFields :
        \E value \in ProbesOf(field, NumberFields) :
            LET obj == [RawObject EXCEPT ![field] = value]
            IN  /\ op' = "serialize"
                /\ args' = [class |-> class, field |-> field, obj |-> obj]
                /\ ret' = Serialize(RawSchema(class), RawInstruction(class, obj))
    /\ pc' = "done"
    /\ UNCHANGED derived

\* new X(obj).serialize() with a class of instructions.ts
CallLegacySerialize ==
    /\ pc = "idle"
    /\ \E class \in Operations, field \in LegacyBNFields \cup LegacyNumberFields :
        \E value \in ProbesOf(field, LegacyNumberFields) :
            LET obj == [LegacyObject EXCEPT ![field] = value]
            IN  /\ op' = "legacySerialize"
                /\ args' = [class |-> class, field |-> field, obj |-> obj]
                /\ ret' = Serialize(legacyInstructions[class].schema,
                                    NewInstruction(legacyInstructions[class], obj))
    /\ pc' = "done"
    /\ UNCHANGED derived

\* new X(obj).serialize() with a class of the codec whose tag is a u8
CallSerializeU8Tag ==
    /\ pc = "idle"
    /\ \E class \in Operations, field \in BNFields \cup NumberFields :
        \E value \in ProbesOf(field, NumberFields) :
            LET obj == [RawObject EXCEPT ![field] = value, !.tag = 9]
            IN  /\ op' = "serializeU8Tag"
                /\ args' = [class |-> class, field |-> field, obj |-> obj]
                /\ ret' = Serialize(rawInstructionsU8Tag[class].schema,
                                    NewInstruction(rawInstructionsU8Tag[class], obj))
    /\ pc' = "done"
    /\ UNCHANGED derived

(***************************************************************************)
(* state.ts: the account decoders                                          *)
(***************************************************************************)

\* getAccountInfo resolves to null for an account that does not exist, and
\* to an object whose data is a Buffer (of any length) otherwise.
Null == [t |-> "null"]
AccountInfo(data) == [t |-> "account", data |-> data]

\* MarketState.schema: <<name, type, width in bytes>> as in the codec.
MarketStateSchema ==
    << <<"tag", "u64", 8>>, <<"baseMint", "array", 32>>,
       <<"quoteMint", "array", 32>>, <<"baseVault", "array", 32>>,
       <<"quoteVault", "array", 32>>, <<"orderbook", "array", 32>>,
       <<"admin", "array", 32>>, <<"creationTimestamp", "u64", 8>>,
       <<"baseVolume", "u64", 8>>, <<"quoteVolume", "u64", 8>>,
       <<"accumulatedFees", "u64", 8>>, <<"minBaseOrderSize", "u64", 8>>,
       <<"signerNonce", "u64", 8>>, <<"feeTierThresholds", "u64s", 48>>,
       <<"feeTierTakerBpsRates", "u64s", 56>>,
       <<"feeTierMakerBpsRates", "u64s", 56>> >>

\* UserAccount.schema, with the field name the source spells
\* "accumulatedMakerBaseeVolume".  "vec" is ["u128"]: a u32 count and that
\* many u128.
UserAccountSchema ==
    << <<"tag", "u64", 8>>, <<"market", "array", 32>>, <<"owner", "array", 32>>,
       <<"baseTokenFree", "u64", 8>>, <<"baseTokenLocked", "u64", 8>>,
       <<"quoteTokenFree", "u64", 8>>, <<"quoteTokenLocked", "u64", 8>>,
       <<"accumulatedRebates", "u64", 8>>,
       <<"accumulatedMakerQuoteVolume", "u64", 8>>,
       <<"accumulatedMakerBaseeVolume", "u64", 8>>,
       <<"accumulatedTakerQuoteVolume", "u64", 8>>,
       <<"accumulatedTakerBaseVolume", "u64", 8>>,
       <<"_padding", "u32", 4>>, <<"orders", "vec", 16>> >>

\* Mutant of ReadBufferThrows: no bounds check, the slice is what is left.
ReadBufferUnchecked(buffer, offset, len) == FALSE

\* BinaryReader.readBuffer(len) throws a BorshError past the end of the
\* buffer, readU32 (Buffer.readUInt32LE) a RangeError that the reader turns
\* into a BorshError.
ReadBufferThrows(buffer, offset, len) == offset + len > Len(buffer)
ReadU32Throws(buffer, offset) == offset + 4 > Len(buffer)

\* buf.slice(offset, offset + len)
Slice(buffer, offset, len) ==
    SubSeq(buffer, offset + 1,
           IF offset + len > Len(buffer) THEN Len(buffer) ELSE offset + len)

\* The number a little-endian byte string stands for.
RECURSIVE LEValue(_)
LEValue(bytes) ==
    IF bytes = <<>> THEN 0 ELSE Head(bytes) + ByteBase * LEValue(Tail(bytes))

ReadOk(v, offset) == [ok |-> TRUE, v |-> v, offset |-> offset]
ReadError(msg) == [ok |-> FALSE, msg |-> msg]
OutOfBounds == "BorshError: Expected buffer length isn't within bounds"
EndOfBuffer == "BorshError: Reached the end of buffer when deserializing"

\* n items of width bytes each, read one after the other as BNs.
ReadItems(buffer, offset, n, width) ==
    IF \E i \in 1..n : ReadBufferThrows(buffer, offset + (i - 1) * width, width)
    THEN ReadError(OutOfBounds)
    ELSE ReadOk([i \in 1..n |->
                    BNFromLE(Slice(buffer, offset + (i - 1) * width, width))],
                offset + n * width)

\* borsh's deserializeField: the value and the reader's new offset, or the
\* error.
DeserializeField(field, buffer, offset) ==
    CASE field[2] = "array" ->
            IF ReadBufferThrows(buffer, offset, field[3]) THEN ReadError(OutOfBounds)
            ELSE ReadOk(Slice(buffer, offset, field[3]), offset + field[3])
      [] field[2] = "u64s" -> ReadItems(buffer, offset, field[3] \div 8, 8)
      [] field[2] = "u32" ->
            IF ReadU32Throws(buffer, offset) THEN ReadError(EndOfBuffer)
            ELSE ReadOk(LEValue(Slice(buffer, offset, 4)), offset + 4)
      [] field[2] = "vec" ->
            IF ReadU32Throws(buffer, offset) THEN ReadError(EndOfBuffer)
            ELSE ReadItems(buffer, offset + 4, LEValue(Slice(buffer, offset, 4)),
                           field[3])
      [] OTHER ->
            IF ReadBufferThrows(buffer, offset, field[3]) THEN ReadError(OutOfBounds)
            ELSE ReadOk(BNFromLE(Slice(buffer, offset, field[3])), offset + field[3])

\* borsh's deserializeStruct up to the call of the constructor: result maps
\* each field name of the schema to what was read for it; a BorshError names
\* the field it was thrown in.
RECURSIVE DeserializeStruct(_, _, _, _)
DeserializeStruct(schema, buffer, i, offset) ==
    IF i > Len(schema)
    THEN [ok |-> TRUE, result |-> [k \in {} |-> 0], offset |-> offset]
    ELSE LET read == DeserializeField(schema[i], buffer, offset)
         IN  IF ~read.ok THEN ReadError(read.msg \o ": " \o schema[i][1])
             ELSE LET rest == DeserializeStruct(schema, buffer, i + 1, read.offset)
                  IN  IF ~rest.ok THEN rest
                      ELSE [rest EXCEPT !.result = (schema[i][1] :> read.v) @@ @]

\* obj.name of JavaScript: undefined for a property obj does not have.
Get(obj, name) == IF name \in DOMAIN obj THEN obj[name] ELSE Undefined

\* BN.toNumber() asserts that the value has at most 53 bits.
ToNumberThrows(v) ==
    \/ Len(v.le) > 7
    \/ Len(v.le) = 7 /\ v.le[7] >= 2 ^ ((5 * BitsPerByte) \div 8)
toNumber(v) == LEValue(v.le)
NotSafe == "Error: Number can only safely store up to 53 bits"

\* new MarketState(obj)
MarketState(obj) ==
    [tag |-> toNumber(Get(obj, "tag")),
     signerNonce |-> toNumber(Get(obj, "signerNonce")),
     baseMint |-> PublicKey(Get(obj, "baseMint")),
     quoteMint |-> PublicKey(Get(obj, "quoteMint")),
     baseVault |-> PublicKey(Get(obj, "baseVault")),
     quoteVault |-> PublicKey(Get(obj, "quoteVault")),
     orderbook |-> PublicKey(Get(obj, "orderbook")),
     admin |-> PublicKey(Get(obj, "admin")),
     creationTimestamp |-> Get(obj, "creationTimestamp"),
     baseVolume |-> Get(obj, "baseVolume"),
     quoteVolume |-> Get(obj, "quoteVolume"),
     accumulatedFees |-> Get(obj, "accumulatedFees"),
     minBaseOrderSize |-> Get(obj, "minBaseOrderSize"),
     feeTierThresholds |-> Get(obj, "feeTierThresholds"),
     feeTierTakerBpsRates |-> Get(obj, "feeTierTakerBpsRates"),
     feeTierMakerBpsRates |-> Get(obj, "feeTierMakerBpsRates")]

MarketStateThrows(obj) ==
    ToNumberThrows(Get(obj, "tag")) \/ ToNumberThrows(Get(obj, "signerNonce"))

\* new UserAccount(obj)
UserAccount(obj) ==
    [tag |-> toNumber(Get(obj, "tag")),
     market |-> PublicKey(Get(obj, "market")),
     owner |-> PublicKey(Get(obj, "owner")),
     baseTokenFree |-> Get(obj, "baseTokenFree"),
     baseTokenLocked |-> Get(obj, "baseTokenLocked"),
     quoteTokenFree |-> Get(obj, "quoteTokenFree"),
     quoteTokenLocked |-> Get(obj, "quoteTokenLocked"),
     orders |-> Get(obj, "orders"),
     accumulatedRebates |-> Get(obj, "accumulatedRebates"),
     accumulatedMakerQuoteVolume |-> Get(obj, "accumulatedMakerQuoteVolume"),
     accumulatedMakerBaseVolume |-> Get(obj, "accumulatedMakerBaseVolume"),
     accumulatedTakerQuoteVolume |-> Get(obj, "accumulatedTakerQuoteVolume"),
     accumulatedTakerBaseVolume |-> Get(obj, "accumulatedTakerBaseVolume")]

UserAccountThrows(obj) == ToNumberThrows(Get(obj, "tag"))

\* MarketState.retrieve after getAccountInfo: borsh's deserialize builds the
\* object and then throws if bytes are left over.
MarketStateRetrieve(accountInfo) ==
    IF accountInfo = Null THEN Thrown("Error: Invalid account provided")
    ELSE LET read == DeserializeStruct(MarketStateSchema, accountInfo.data, 1, 0)
         IN  IF ~read.ok THEN Thrown(read.msg)
             ELSE IF MarketStateThrows(read.result) THEN Thrown(NotSafe)
             ELSE IF read.offset < Len(accountInfo.data)
             THEN Thrown("BorshError: Unexpected bytes after deserialized data")
             ELSE Returned(MarketState(read.result))

\* UserAccount.retrieve after getAccountInfo: deserializeUnchecked does not
\* look at what is left over.
UserAccountRetrieve(accountInfo) ==
    IF accountInfo = Null THEN Thrown("Error: Invalid account provided")
    ELSE LET read == DeserializeStruct(UserAccountSchema, accountInfo.data, 1, 0)
         IN  IF ~read.ok THEN Thrown(read.msg)
             ELSE IF UserAccountThrows(read.result) THEN Thrown(NotSafe)
             ELSE Returned(UserAccount(read.result))

\* Inputs of the decoders.  A wire record gives each field of the account
\* layout a value of its own; its buffer is the fields one after the other,
\* and the account handed to retrieve is missing, empty, that buffer, its
\* first four bytes, the buffer without its last bytes, or the buffer
\* followed by further bytes.
MaxVariant == 1
MaxOrders == 2

\* The layout of a user account: the fields of UserAccount.schema under the
\* names the record declares.
UserAccountLayout ==
    [UserAccountSchema EXCEPT ![10] = <<"accumulatedMakerBaseVolume", "u64", 8>>]

WireBytes(field, value) ==
    CASE field[2] = "u32" -> ToArrayLE(BN(value), 4)
      [] field[2] = "vec" ->
            ToArrayLE(BN(Len(value)), 4)
                \o Concat([i \in 1..Len(value) |-> ToArrayLE(value[i], field[3])])
      [] OTHER -> FieldBytes(field, value)

Encode(layout, wire) ==
    Concat([i \in 1..Len(layout) |-> WireBytes(layout[i], wire[layout[i][1]])])

WireTags == {BN(0), BN(1), BN(2), U64_MAX}

MarketWire(tag, s) ==
    [tag |-> tag, baseMint |-> toBuffer(UnitKey(1 + s)),
     quoteMint |-> toBuffer(UnitKey(3 + s)), baseVault |-> toBuffer(UnitKey(5 + s)),
     quoteVault |-> toBuffer(UnitKey(7 + s)), orderbook |-> toBuffer(UnitKey(9 + s)),
     admin |-> toBuffer(UnitKey(11 + s)), creationTimestamp |-> BN(20 + s),
     baseVolume |-> BN(22 + s), quoteVolume |-> BN(24 + s),
     accumulatedFees |-> BN(26 + s), minBaseOrderSize |-> BN(28 + s),
     signerNonce |-> BN(30 + s),
     feeTierThresholds |-> [i \in 1..6 |-> BN(40 + i + s)],
     feeTierTakerBpsRates |-> [i \in 1..7 |-> BN(50 + i + s)],
     feeTierMakerBpsRates |-> [i \in 1..7 |-> BN(60 + i + s)]]

UserWire(tag, s, n) ==
    [tag |-> tag, market |-> toBuffer(UnitKey(1 + s)),
     owner |-> toBuffer(UnitKey(3 + s)), baseTokenFree |-> BN(20 + s),
     baseTokenLocked |-> BN(22 + s), quoteTokenFree |-> BN(24 + s),
     quoteTokenLocked |-> BN(26 + s), accumulatedRebates |-> BN(28 + s),
     accumulatedMakerQuoteVolume |-> BN(30 + s),
     accumulatedMakerBaseVolume |-> BN(32 + s),
     accumulatedTakerQuoteVolume |-> BN(34 + s),
     accumulatedTakerBaseVolume |-> BN(36 + s), _padding |-> 0,
     orders |-> [i \in 1..n |-> BN(40 + i + s)]]

Shapes ==
    {"missing", "empty", "head4", "cut1", "cut9", "exact", "extra1", "extra16"}

Account(buffer, shape) ==
    CASE shape = "missing" -> Null
      [] shape = "empty" -> AccountInfo(<<>>)
      [] shape = "head4" -> AccountInfo(SubSeq(buffer, 1, 4))
      [] shape = "cut1" -> AccountInfo(SubSeq(buffer, 1, Len(buffer) - 1))
      [] shape = "cut9" -> AccountInfo(SubSeq(buffer, 1, Len(buffer) - 9))
      [] shape = "extra1" -> AccountInfo(buffer \o <<0>>)
      [] shape = "extra16" -> AccountInfo(buffer \o Ones(16))
      [] OTHER -> AccountInfo(buffer)

\* MarketState.retrieve(connection, market)
CallMarketStateRetrieve ==
    /\ pc = "idle"
    /\ \E tag \in WireTags, s \in 0..MaxVariant, shape \in Shapes :
        LET wire == MarketWire(tag, s)
            accountInfo == Account(Encode(MarketStateSchema, wire), shape)
        IN  /\ op' = "MarketState.retrieve"
            /\ args' = [wire |-> wire, shape |-> shape, accountInfo |-> accountInfo]
            /\ ret' = MarketStateRetrieve(accountInfo)
    /\ pc' = "done"
    /\ UNCHANGED derived

\* UserAccount.retrieve(connection, userAccount)
CallUserAccountRetrieve ==
    /\ pc = "idle"
    /\ \E tag \in WireTags, s \in 0..MaxVariant, n \in 0..MaxOrders, shape \in Shapes :
        LET wire == UserWire(tag, s, n)
            accountInfo == Account(Encode(UserAccountLayout, wire), shape)
        IN  /\ op' = "UserAccount.retrieve"
            /\ args' = [wire |-> wire, shape |-> shape, accountInfo |-> accountInfo]
            /\ ret' = UserAccountRetrieve(accountInfo)
    /\ pc' = "done"
    /\ UNCHANGED derived

(***************************************************************************)
(* bindings.ts, market.ts, openOrders.ts: the derived addresses            *)
(***************************************************************************)

\* cancelOrder of js/src/bindings.ts.  The market signer it derives is not
\* handed to the instruction.
cancelOrder(market, orderIndex, orderId, owner) ==
    LET marketSigner == findProgramAddress(<<toBuffer(market.address)>>, DEX_ID)
        userAccount ==
            findProgramAddress(<<toBuffer(market.address), toBuffer(owner)>>, DEX_ID)
    IN  cancelOrderGetInstruction(
            cancelOrderInstruction([orderIndex |-> orderIndex, orderId |-> orderId]),
            DEX_ID, market.address, market.orderbookAddress,
            market.eventQueueAddress, market.bidsAddress, market.asksAddress,
            userAccount, owner)

\* initializeAccount of js/src/bindings.ts; market is an address.
initializeAccount(market, owner, maxOrders) ==
    LET userAccount == findProgramAddress(<<toBuffer(market), toBuffer(owner)>>, DEX_ID)
    IN  initializeAccountGetInstruction(
            initializeAccountInstruction(
                [market |-> toBuffer(market), maxOrders |-> BN(maxOrders)]),
            DEX_ID, SystemProgramId, userAccount, owner, owner)

\* settle of js/src/bindings.ts
settle(market, owner, destinationBaseAccount, destinationQuoteAccount) ==
    LET marketSigner == findProgramAddress(<<toBuffer(market.address)>>, DEX_ID)
        userAccount ==
            findProgramAddress(<<toBuffer(market.address), toBuffer(owner)>>, DEX_ID)
    IN  settleGetInstruction(
            settleInstruction, DEX_ID, TOKEN_PROGRAM_ID, market.address,
            market.baseVault, market.quoteVault, marketSigner, userAccount, owner,
            destinationBaseAccount, destinationQuoteAccount)

\* Mutant of closeAccount: the owner's seed comes first.
closeAccountOwnerFirst(market, owner) ==
    closeAccountGetInstruction(
        closeAccountInstruction, DEX_ID,
        findProgramAddress(<<toBuffer(owner), toBuffer(market)>>, DEX_ID),
        owner, owner)

\* closeAccount of js/src/bindings.ts; market is an address.
closeAccount(market, owner) ==
    LET userAccount == findProgramAddress(<<toBuffer(market), toBuffer(owner)>>, DEX_ID)
    IN  closeAccountGetInstruction(
            closeAccountInstruction, DEX_ID, userAccount, owner, owner)

\* Market.findOpenOrdersAccountForOwner(owner)
findOpenOrdersAccountForOwner(self, owner) ==
    findProgramAddress(<<toBuffer(self.address), toBuffer(owner)>>, self.programId)

\* a.add(b) of bn.js, for non-negative a and b.
BNAdd(a, b) == BN(LEValue(a.le) + LEValue(b.le))

\* connection.getAccountInfo(address): a connection is the set of the
\* accounts that exist, each an address and what it holds.
getAccountInfo(connection, address) ==
    IF \E a \in connection : a.address = address
    THEN (CHOOSE a \in connection : a.address = address).accountInfo
    ELSE Null

\* OpenOrders.load(connection, market, owner)
OpenOrdersLoad(connection, market, owner) ==
    LET address == findProgramAddress(<<toBuffer(market), toBuffer(owner)>>, DEX_ID)
        userAccount == UserAccountRetrieve(getAccountInfo(connection, address))
    IN  IF userAccount.kind = "error" THEN userAccount
        ELSE Returned(
                [address |-> address, market |-> market, owner |-> owner,
                 baseTokenFree |-> userAccount.v.baseTokenFree,
                 baseTokenTotal |->
                    BNAdd(userAccount.v.baseTokenLocked, userAccount.v.baseTokenFree),
                 quoteTokenFree |-> userAccount.v.quoteTokenFree,
                 quoteTokenTotal |->
                    BNAdd(userAccount.v.quoteTokenFree, userAccount.v.quoteTokenLocked),
                 orders |-> userAccount.v.orders,
                 accumulatedRebates |-> userAccount.v.accumulatedRebates])

\* Inputs: two markets and two owners whose addresses all differ, and a
\* connection on which the user account of one market and owner exists.
BindingMarkets == {TheMarket, [TheMarket EXCEPT !.address = UnitKey(20)]}
Owners == {Owner, UnitKey(21)}
DestinationBaseAccount == UnitKey(22)
DestinationQuoteAccount == UnitKey(23)
MaxOrdersDefault == 20

Connection(market, owner) ==
    {[address |-> findProgramAddress(<<toBuffer(market), toBuffer(owner)>>, DEX_ID),
      accountInfo |->
        AccountInfo(Encode(UserAccountLayout,
                           [UserWire(BN(2), 0, 1) EXCEPT !.market = toBuffer(market),
                                                         !.owner = toBuffer(owner)]))]}

CallCancelOrder ==
    /\ pc = "idle"
    /\ \E market \in BindingMarkets, owner \in Owners :
        /\ op' = "cancelOrder"
        /\ args' = [market |-> market.address, owner |-> owner]
        /\ ret' = cancelOrder(market, BN(1), BN(2), owner)
    /\ pc' = "done"
    /\ UNCHANGED derived

CallInitializeAccount ==
    /\ pc = "idle"
    /\ \E market \in BindingMarkets, owner \in Owners :
        /\ op' = "initializeAccount"
        /\ args' = [market |-> market.address, owner |-> owner]
        /\ ret' = initializeAccount(market.address, owner, MaxOrdersDefault)
    /\ pc' = "done"
    /\ UNCHANGED derived

CallSettle ==
    /\ pc = "idle"
    /\ \E market \in BindingMarkets, owner \in Owners :
        /\ op' = "settle"
        /\ args' = [market |-> market.address, owner |-> owner]
        /\ ret' = settle(market, owner, DestinationBaseAccount, DestinationQuoteAccount)
    /\ pc' = "done"
    /\ UNCHANGED derived

CallCloseAccount ==
    /\ pc = "idle"
    /\ \E market \in BindingMarkets, owner \in Owners :
        /\ op' = "closeAccount"
        /\ args' = [market |-> market.address, owner |-> owner]
        /\ ret' = closeAccount(market.address, owner)
    /\ pc' = "done"
    /\ UNCHANGED derived

CallFindOpenOrdersAccountForOwner ==
    /\ pc = "idle"
    /\ \E market \in BindingMarkets, owner \in Owners :
        /\ op' = "findOpenOrdersAccountForOwner"
        /\ args' = [market |-> market.address, owner |-> owner]
        /\ ret' = Returned(findOpenOrdersAccountForOwner(market, owner))
    /\ pc' = "done"
    /\ UNCHANGED derived

\* OpenOrders.load on a connection that holds the user account of
\* (stored.market, stored.owner) and no other.
CallOpenOrdersLoad ==
    /\ pc = "idle"
    /\ \E market \in BindingMarkets, owner \in Owners :
        \E storedMarket \in BindingMarkets, storedOwner \in Owners :
            /\ op' = "OpenOrders.load"
            /\ args' = [market |-> market.address, owner |-> owner,
                        stored |-> [market |-> storedMarket.address,
                                    owner |-> storedOwner]]
            /\ ret' = OpenOrdersLoad(Connection(storedMarket.address, storedOwner),
                                     market.address, owner)
    /\ pc' = "done"
    /\ UNCHANGED derived

(***************************************************************************)
(* bindings.ts: createMarket                                               *)
(***************************************************************************)

\* Mutant of MARKET_STATE_SPACE: the six addresses and the twenty-six u64,
\* without the eight bytes of the tag.
MarketStateSpaceWithoutTag == 6 * PUBLIC_KEY_LENGTH + 26 * 8

MARKET_STATE_SPACE == 408

\* MARKET_STATE_SPACE of the later bindings.ts
MarketStateSpaceMultipliers == 280

\* SystemProgram.createAccount(params)
CreateAccount(fromPubkey, lamports, newAccountPubkey, programId, space) ==
    [t |-> "createAccount", fromPubkey |-> fromPubkey, lamports |-> lamports,
     newAccountPubkey |-> newAccountPubkey, programId |-> programId,
     space |-> space]

findAssociatedTokenAddress(walletAddress, tokenMintAddress) ==
    findProgramAddress(
        <<toBuffer(walletAddress), toBuffer(TOKEN_PROGRAM_ID),
          toBuffer(tokenMintAddress)>>,
        ASSOCIATED_TOKEN_PROGRAM_ID)

\* Mutant of createAssociatedTokenAccount: the account created is the
\* associated token account of the funding address.
createAssociatedTokenAccountOfFunder(fundingAddress, walletAddress, splTokenMintAddress) ==
    [keys |-> << AccountKey(fundingAddress, TRUE, TRUE),
                 AccountKey(findAssociatedTokenAddress(fundingAddress,
                                                       splTokenMintAddress),
                            FALSE, TRUE),
                 AccountKey(walletAddress, FALSE, FALSE),
                 AccountKey(splTokenMintAddress, FALSE, FALSE),
                 AccountKey(SystemProgramId, FALSE, FALSE),
                 AccountKey(TOKEN_PROGRAM_ID, FALSE, FALSE),
                 AccountKey(SYSVAR_RENT_PUBKEY, FALSE, FALSE) >>,
     programId |-> ASSOCIATED_TOKEN_PROGRAM_ID,
     data |-> <<>>]

createAssociatedTokenAccount(fundingAddress, walletAddress, splTokenMintAddress) ==
    [keys |-> << AccountKey(fundingAddress, TRUE, TRUE),
                 AccountKey(findAssociatedTokenAddress(walletAddress,
                                                       splTokenMintAddress),
                            FALSE, TRUE),
                 AccountKey(walletAddress, FALSE, FALSE),
                 AccountKey(splTokenMintAddress, FALSE, FALSE),
                 AccountKey(SystemProgramId, FALSE, FALSE),
                 AccountKey(TOKEN_PROGRAM_ID, FALSE, FALSE),
                 AccountKey(SYSVAR_RENT_PUBKEY, FALSE, FALSE) >>,
     programId |-> ASSOCIATED_TOKEN_PROGRAM_ID,
     data |-> <<>>]

\* The instructions of aaob.createMarket, a library call: one that creates
\* the account of each of its four signers, and its own create_market last.
aaobCreateMarket(signers, callerAuthority, feePayer, programId) ==
    [i \in 1..Len(signers) |->
        [t |-> "aaob.createAccount", fromPubkey |-> feePayer,
         newAccountPubkey |-> signers[i], programId |-> programId]]
    \o <<[t |-> "aaob.createMarket", callerAuthority |-> callerAuthority]>>

\* Mutant of Pop: nothing is removed.
PopNothing(list) == list

\* aaobInstructions.pop()
Pop(list) == SubSeq(list, 1, Len(list) - 1)

\* Mutant of createMarketSigner: the nonce is the bump under another
\* program id.
createMarketSignerNonceOfSystemProgram(marketAccount, programId) ==
    << findProgramAddress(<<toBuffer(marketAccount)>>, programId),
       findProgramAddressBump(<<toBuffer(marketAccount)>>, SystemProgramId) >>

\* Mutant of createMarketSigner: the search for the bump goes on from where
\* the derivations made before have left it.
createMarketSignerResumed(marketAccount, programId) ==
    << findProgramAddress(<<toBuffer(marketAccount)>>, programId),
       (findProgramAddressBump(<<toBuffer(marketAccount)>>, programId)
            + Cardinality(derived)) % ByteBase >>

\* [marketSigner, marketSignerNonce] of createMarket
createMarketSigner(marketAccount, programId) ==
    << findProgramAddress(<<toBuffer(marketAccount)>>, programId),
       findProgramAddressBump(<<toBuffer(marketAccount)>>, programId) >>

\* createMarket of js/src/bindings.ts.  marketAccount is the public key of
\* the Keypair it generates, aaobSigners those of the Keypairs the library
\* generates, balance what the connection answers for the rent exemption.
createMarket(marketAccount, aaobSigners, balance, baseMint, quoteMint, minBaseOrderSize, feePayer, marketAdmin, tickSize, crankerReward, feeTierThresholds, feeTierTakerBpsRates, feeTierMakerBpsRebates) ==
    LET createMarketAccount ==
            CreateAccount(feePayer, balance, marketAccount, DEX_ID, MARKET_STATE_SPACE)
        signer == createMarketSigner(marketAccount, DEX_ID)
        marketSigner == signer[1]
        marketSignerNonce == signer[2]
        aaobInstructions ==
            Pop(aaobCreateMarket(aaobSigners, marketSigner, feePayer, DEX_ID))
        createBaseVault == createAssociatedTokenAccount(feePayer, marketSigner, baseMint)
        createQuoteVault == createAssociatedTokenAccount(feePayer, marketSigner, quoteMint)
        instruction ==
            createMarketGetInstruction(
                createMarketInstruction(
                    [signerNonce |-> BN(marketSignerNonce),
                     minBaseOrderSize |-> BN(minBaseOrderSize),
                     tickSize |-> tickSize,
                     crankerReward |-> crankerReward,
                     feeTierThresholds |-> feeTierThresholds,
                     feeTierTakerBpsRates |-> feeTierTakerBpsRates,
                     feeTierMakerBpsRebates |-> feeTierMakerBpsRebates]),
                DEX_ID, marketAccount, aaobSigners[4],
                findAssociatedTokenAddress(marketSigner, baseMint),
                findAssociatedTokenAddress(marketSigner, quoteMint),
                marketAdmin, aaobSigners[1], aaobSigners[2], aaobSigners[3])
    IN  IF instruction.kind = "error" THEN instruction
        ELSE Returned(
                << << <<marketAccount>>, <<createMarketAccount>> >>,
                   << aaobSigners, aaobInstructions >>,
                   << <<>>, <<createBaseVault, createQuoteVault, instruction.v>> >> >>)

\* The createMarketInstruction the later bindings.ts constructs with the
\* two currency multipliers and a metadata account: its class is not among
\* the sources.  It keeps the tag, the leading fields and the account roles
\* of createMarketInstruction and appends what the binding adds.
createMarketInstructionMultipliersSchema ==
    << <<"tag", "u64", 8>>, <<"signerNonce", "u64", 8>>,
       <<"minBaseOrderSize", "u64", 8>>, <<"tickSize", "u64", 8>>,
       <<"crankerReward", "u64", 8>>, <<"baseCurrencyMultiplier", "u64", 8>>,
       <<"quoteCurrencyMultiplier", "u64", 8>> >>

createMarketMultipliersGetInstruction(obj, programId, market, orderbook, baseVault, quoteVault, marketAdmin, eventQueue, asks, bids, metadataAccount) ==
    TransactionInstruction(
        << AccountKey(market, FALSE, TRUE),
           AccountKey(orderbook, FALSE, TRUE),
           AccountKey(baseVault, FALSE, FALSE),
           AccountKey(quoteVault, FALSE, FALSE),
           AccountKey(marketAdmin, FALSE, FALSE),
           AccountKey(eventQueue, FALSE, TRUE),
           AccountKey(asks, FALSE, TRUE),
           AccountKey(bids, FALSE, TRUE),
           AccountKey(metadataAccount, FALSE, FALSE) >>,
        programId, createMarketInstructionMultipliersSchema,
        [tag |-> BN(0)] @@ obj)

\* a.mul(b).div(c) of bn.js for non-negative values; div asserts c # 0.
BNMulDiv(a, b, c) == BN((LEValue(a.le) * LEValue(b.le)) \div LEValue(c.le))

\* createMarket of the later bindings.ts.  An argument that was not passed
\* is Undefined; metadataAccount is what getMetadataKeyFromMint answers.
createMarketProgramId(marketAccount, aaobSigners, balance, metadataAccount, baseMint, quoteMint, minBaseOrderSize, feePayer, marketAdmin, tickSize, crankerReward, baseCurrencyMultiplierArg, quoteCurrencyMultiplierArg, programIdArg) ==
    LET programId == IF programIdArg = Undefined THEN DEX_ID ELSE programIdArg
        baseCurrencyMultiplier ==
            IF baseCurrencyMultiplierArg = Undefined THEN BN(1)
            ELSE baseCurrencyMultiplierArg
        quoteCurrencyMultiplier ==
            IF quoteCurrencyMultiplierArg = Undefined THEN BN(1)
            ELSE quoteCurrencyMultiplierArg
        adjustedTickSize ==
            BNMulDiv(tickSize, baseCurrencyMultiplier, quoteCurrencyMultiplier)
        createMarketAccount ==
            CreateAccount(feePayer, balance, marketAccount, programId,
                          MarketStateSpaceMultipliers)
        signer == createMarketSigner(marketAccount, programId)
        marketSigner == signer[1]
        marketSignerNonce == signer[2]
        aaobInstructions ==
            Pop(aaobCreateMarket(aaobSigners, marketSigner, feePayer, programId))
        createBaseVault == createAssociatedTokenAccount(feePayer, marketSigner, baseMint)
        createQuoteVault == createAssociatedTokenAccount(feePayer, marketSigner, quoteMint)
        instruction ==
            createMarketMultipliersGetInstruction(
                [signerNonce |-> BN(marketSignerNonce),
                 minBaseOrderSize |-> minBaseOrderSize,
                 tickSize |-> adjustedTickSize,
                 crankerReward |-> crankerReward,
                 baseCurrencyMultiplier |-> baseCurrencyMultiplier,
                 quoteCurrencyMultiplier |-> quoteCurrencyMultiplier],
                programId, marketAccount, aaobSigners[4],
                findAssociatedTokenAddress(marketSigner, baseMint),
                findAssociatedTokenAddress(marketSigner, quoteMint),
                marketAdmin, aaobSigners[1], aaobSigners[2], aaobSigners[3],
                metadataAccount)
    IN  IF LEValue(quoteCurrencyMultiplier.le) = 0 THEN Thrown("Assertion failed")
        ELSE IF instruction.kind = "error" THEN instruction
        ELSE Returned(
                << << <<marketAccount>>, <<createMarketAccount>> >>,
                   << aaobSigners, aaobInstructions >>,
                   << <<>>, <<createBaseVault, createQuoteVault, instruction.v>> >> >>)

\* Inputs: the key a new Keypair() may have, fixed keys for the rest.
NewKeypairs == {UnitKey(24), UnitKey(25), UnitKey(26), TheMarket.address}
AaobSigners == <<UnitKey(27), UnitKey(28), UnitKey(29), UnitKey(30)>>
BaseMint == UnitKey(18)
QuoteMint == UnitKey(19)
FeePayer == UnitKey(31)
MarketAdmin == UnitKey(32)
MetadataAccount == [t |-> "metadata", mint |-> BaseMint]
ProgramIdArgs == {Undefined, DEX_ID, TheMarket.programId}
MultiplierArgs == {Undefined, BN(0), BN(2)}

CallCreateMarket ==
    /\ pc = "idle"
    /\ \E marketAccount \in NewKeypairs, minBaseOrderSize \in 1..MaxMinOrderSize,
          feeTierThresholds \in ListProbes :
        /\ op' = "createMarket"
        /\ args' = [marketAccount |-> marketAccount,
                    minBaseOrderSize |-> minBaseOrderSize,
                    feeTierThresholds |-> feeTierThresholds]
        /\ ret' = createMarket(marketAccount, AaobSigners, 1, BaseMint, QuoteMint,
                               minBaseOrderSize, FeePayer, MarketAdmin, BN(1),
                               BN(1), feeTierThresholds, FeeTierList(7),
                               FeeTierList(7))
    /\ pc' = "done"
    /\ UNCHANGED derived

CallCreateMarketProgramId ==
    /\ pc = "idle"
    /\ \E marketAccount \in NewKeypairs, programId \in ProgramIdArgs,
          baseCurrencyMultiplier \in MultiplierArgs,
          quoteCurrencyMultiplier \in MultiplierArgs :
        /\ op' = "createMarketProgramId"
        /\ args' = [marketAccount |-> marketAccount, programId |-> programId,
                    baseCurrencyMultiplier |-> baseCurrencyMultiplier,
                    quoteCurrencyMultiplier |-> quoteCurrencyMultiplier]
        /\ ret' = createMarketProgramId(
                    marketAccount, AaobSigners, 1, MetadataAccount, BaseMint,
                    QuoteMint, BN(1), FeePayer, MarketAdmin, BN(4), BN(1),
                    baseCurrencyMultiplier, quoteCurrencyMultiplier, programId)
    /\ pc' = "done"
    /\ UNCHANGED derived

(***************************************************************************)
(* getInstruction in the three versions of the codec                       *)
(***************************************************************************)

\* The addresses handed to getInstruction, one per role, all different.
Roles ==
    [dexId |-> DEX_ID, aaobId |-> UnitKey(1), market |-> TheMarket.address,
     marketSigner |-> findProgramAddress(<<toBuffer(TheMarket.address)>>, DEX_ID),
     orderbook |-> TheMarket.orderbookAddress,
     eventQueue |-> TheMarket.eventQueueAddress,
     bids |-> TheMarket.bidsAddress, asks |-> TheMarket.asksAddress,
     baseVault |-> TheMarket.baseVault, quoteVault |-> TheMarket.quoteVault,
     user |-> findProgramAddress(<<toBuffer(TheMarket.address), toBuffer(Owner)>>,
                                 DEX_ID),
     userTokenAccount |-> OwnerTokenAccount, userOwner |-> Owner,
     feePayer |-> FeePayer, marketAdmin |-> MarketAdmin,
     destinationBaseAccount |-> DestinationBaseAccount,
     destinationQuoteAccount |-> DestinationQuoteAccount,
     destinationTokenAccount |-> UnitKey(15),
     targetLamportsAccount |-> RewardTarget]

\* The account roles getInstruction builds in instructions.ts, by operation.
legacyKeys(class, a) ==
    CASE class = "cancelOrder" ->
            << AccountKey(a.aaobId, FALSE, FALSE),
               AccountKey(a.market, FALSE, FALSE),
               AccountKey(a.marketSigner, FALSE, FALSE),
               AccountKey(a.orderbook, FALSE, TRUE),
               AccountKey(a.eventQueue, FALSE, TRUE),
               AccountKey(a.bids, FALSE, TRUE),
               AccountKey(a.asks, FALSE, TRUE),
               AccountKey(a.user, FALSE, TRUE),
               AccountKey(a.userOwner, TRUE, FALSE) >>
      [] class = "settle" ->
            << AccountKey(a.aaobId, FALSE, FALSE),
               AccountKey(TOKEN_PROGRAM_ID, FALSE, FALSE),
               AccountKey(a.market, FALSE, FALSE),
               AccountKey(a.baseVault, FALSE, TRUE),
               AccountKey(a.quoteVault, FALSE, TRUE),
               AccountKey(a.marketSigner, FALSE, FALSE),
               AccountKey(a.user, FALSE, TRUE),
               AccountKey(a.userOwner, TRUE, FALSE),
               AccountKey(a.destinationBaseAccount, FALSE, TRUE),
               AccountKey(a.destinationQuoteAccount, FALSE, TRUE) >>
      [] class = "initializeAccount" ->
            << AccountKey(SystemProgramId, FALSE, FALSE),
               AccountKey(a.user, FALSE, TRUE),
               AccountKey(a.userOwner, TRUE, FALSE),
               AccountKey(a.feePayer, TRUE, TRUE) >>
      [] class = "sweepFees" ->
            << AccountKey(a.market, FALSE, TRUE),
               AccountKey(a.marketSigner, FALSE, FALSE),
               AccountKey(a.marketAdmin, TRUE, FALSE),
               AccountKey(a.quoteVault, FALSE, TRUE),
               AccountKey(a.destinationTokenAccount, FALSE, TRUE),
               AccountKey(TOKEN_PROGRAM_ID, FALSE, FALSE) >>
      [] class = "closeAccount" ->
            << AccountKey(a.user, FALSE, TRUE),
               AccountKey(a.userOwner, TRUE, FALSE),
               AccountKey(a.targetLamportsAccount, FALSE, TRUE) >>
      [] class = "closeMarket" ->
            << AccountKey(a.market, FALSE, TRUE),
               AccountKey(a.baseVault, FALSE, TRUE),
               AccountKey(a.quoteVault, FALSE, TRUE),
               AccountKey(a.marketSigner, FALSE, TRUE),
               AccountKey(a.orderbook, FALSE, TRUE),
               AccountKey(a.eventQueue, FALSE, TRUE),
               AccountKey(a.bids, FALSE, TRUE),
               AccountKey(a.asks, FALSE, TRUE),
               AccountKey(a.aaobId, FALSE, TRUE),
               AccountKey(a.marketAdmin, FALSE, TRUE),
               AccountKey(a.targetLamportsAccount, FALSE, TRUE) >>

\* new X(obj).getInstruction(...) with a class of instructions.ts
legacyGetInstruction(class, obj, a) ==
    IF class = "newOrder"
    THEN legacyNewOrderGetInstruction(
            legacyNewOrderInstruction(obj), a.dexId, a.aaobId, a.market,
            a.marketSigner, a.orderbook, a.eventQueue, a.bids, a.asks,
            a.baseVault, a.quoteVault, a.user, a.userTokenAccount, a.userOwner,
            Undefined)
    ELSE TransactionInstruction(legacyKeys(class, a), a.dexId,
                                legacyInstructions[class].schema,
                                NewInstruction(legacyInstructions[class], obj))

\* new X(obj).getInstruction(...) with a class of raw_instructions.ts
rawGetInstruction(class, obj, a) ==
    CASE class = "newOrder" ->
            newOrderGetInstruction(
                newOrderInstruction(obj), a.dexId, TOKEN_PROGRAM_ID, SystemProgramId,
                a.market, a.orderbook, a.eventQueue, a.bids, a.asks, a.baseVault,
                a.quoteVault, a.user, a.userTokenAccount, a.userOwner, Undefined)
      [] class = "cancelOrder" ->
            cancelOrderGetInstruction(
                cancelOrderInstruction(obj), a.dexId, a.market, a.orderbook,
                a.eventQueue, a.bids, a.asks, a.user, a.userOwner)
      [] class = "settle" ->
            settleGetInstruction(
                settleInstruction, a.dexId, TOKEN_PROGRAM_ID, a.market, a.baseVault,
                a.quoteVault, a.marketSigner, a.user, a.userOwner,
                a.destinationBaseAccount, a.destinationQuoteAccount)
      [] class = "initializeAccount" ->
            initializeAccountGetInstruction(
                initializeAccountInstruction(obj), a.dexId, SystemProgramId, a.user,
                a.userOwner, a.feePayer)
      [] class = "sweepFees" ->
            sweepFeesGetInstruction(
                sweepFeesInstruction, a.dexId, a.market, a.marketSigner,
                a.marketAdmin, a.quoteVault, a.destinationTokenAccount,
                TOKEN_PROGRAM_ID)
      [] class = "closeAccount" ->
            closeAccountGetInstruction(
                closeAccountInstruction, a.dexId, a.user, a.userOwner,
                a.targetLamportsAccount)
      [] class = "closeMarket" ->
            closeMarketGetInstruction(
                closeMarketInstruction, a.dexId, a.market, a.baseVault, a.quoteVault,
                a.orderbook, a.eventQueue, a.bids, a.asks, a.marketAdmin,
                a.targetLamportsAccount)

\* new X(obj).getInstruction(...) with a class of the codec whose tag is a
\* u8: the account roles are those of raw_instructions.ts, the payload
\* follows its own schema.
u8TagGetInstruction(class, obj, a) ==
    LET raw == rawGetInstruction(class, obj, a)
    IN  IF raw.kind = "error" THEN raw
        ELSE TransactionInstruction(raw.v.keys, a.dexId,
                                    rawInstructionsU8Tag[class].schema,
                                    NewInstruction(rawInstructionsU8Tag[class], obj))

\* Inputs: the operations that act on a user account or need the market
\* admin, in each version of the codec.
UserOperations == {"newOrder", "cancelOrder", "settle", "initializeAccount", "closeAccount"}
AdminOperations == {"sweepFees", "closeMarket"}
CodecVersions == {"raw_instructions.ts", "instructions.ts", "u8 tag"}

CallGetInstruction ==
    /\ pc = "idle"
    /\ \E version \in CodecVersions, class \in UserOperations \cup AdminOperations :
        /\ op' = "getInstruction"
        /\ args' = [version |-> version, class |-> class]
        /\ ret' = CASE version = "raw_instructions.ts" ->
                            rawGetInstruction(class, RawObject, Roles)
                     [] version = "instructions.ts" ->
                            legacyGetInstruction(class, LegacyObject, Roles)
                     [] version = "u8 tag" ->
                            u8TagGetInstruction(class, RawObject, Roles)
    /\ pc' = "done"
    /\ UNCHANGED derived

(***************************************************************************)
(* market.ts: findFeeDiscountKeys                                          *)
(***************************************************************************)

SRM_MINT == PublicKey(<<1, 1>> \o Zeros(PUBLIC_KEY_LENGTH - 2))
MSRM_MINT == PublicKey(<<1, 2>> \o Zeros(PUBLIC_KEY_LENGTH - 2))

\* connection.getParsedAccountInfo(address): always an object, whose value
\* is null for an account that does not exist.
getParsedAccountInfo(connection, address) ==
    [context |-> [slot |-> 0],
     value |-> IF \E a \in connection : a.address = address
               THEN [data |-> (CHOOSE a \in connection : a.address = address).data]
               ELSE Null]

\* throwIfNull(value, message)
throwIfNull(value, message) == IF value = Null THEN Thrown(message) ELSE Returned(value)

\* getTokenBalance of utils.ts: value?.data.parsed.uiAmount
getTokenBalance(connection, address) ==
    LET response == throwIfNull(getParsedAccountInfo(connection, address),
                                "Token account does not exist")
    IN  IF response.kind = "error" THEN response
        ELSE IF response.v.value = Null THEN Returned(Undefined)
        ELSE Returned(Get(response.v.value.data.parsed, "uiAmount"))

\* Market.findFeeDiscountKeys(connection, owner)
findFeeDiscountKeys(connection, owner) ==
    LET srmAddress == findAssociatedTokenAddress(owner, SRM_MINT)
        msrmAddress == findAssociatedTokenAddress(owner, MSRM_MINT)
        srmBalance == getTokenBalance(connection, srmAddress)
        msrmBalance == getTokenBalance(connection, msrmAddress)
    IN  IF srmBalance.kind = "error" THEN srmBalance
        ELSE IF msrmBalance.kind = "error" THEN msrmBalance
        ELSE Returned(
                << [pubkey |-> srmAddress, mint |-> SRM_MINT,
                    balance |-> srmBalance.v,
                    feeTier |-> getFeeTier(Fin(0), srmBalance.v)],
                   [pubkey |-> msrmAddress, mint |-> MSRM_MINT,
                    balance |-> msrmBalance.v,
                    feeTier |-> getFeeTier(msrmBalance.v, Fin(0))] >>)

\* Inputs: what the node holds at the owner's SRM and MSRM token addresses:
\* nothing, or a token account as the node parses it (the amount under
\* info.tokenAmount), or an account whose parsed data has uiAmount itself.
ParsedTokenAccount(uiAmount) ==
    [program |-> "spl-token",
     parsed |-> [type |-> "account",
                 info |-> [tokenAmount |-> [uiAmount |-> Fin(uiAmount)]]]]

FlatTokenAccount(uiAmount) ==
    [program |-> "spl-token", parsed |-> [uiAmount |-> Fin(uiAmount)]]

TokenAccountStates == {"missing", "parsed0", "parsed100", "flat0", "flat1", "flat100"}

TokenAccountOf(state) ==
    CASE state = "missing" -> Null
      [] state = "parsed0" -> ParsedTokenAccount(0)
      [] state = "parsed100" -> ParsedTokenAccount(100)
      [] state = "flat0" -> FlatTokenAccount(0)
      [] state = "flat1" -> FlatTokenAccount(1)
      [] state = "flat100" -> FlatTokenAccount(100)

ParsedConnection(owner, srm, msrm) ==
    (IF srm = "missing" THEN {}
     ELSE {[address |-> findAssociatedTokenAddress(owner, SRM_MINT),
            data |-> TokenAccountOf(srm)]})
    \cup
    (IF msrm = "missing" THEN {}
     ELSE {[address |-> findAssociatedTokenAddress(owner, MSRM_MINT),
            data |-> TokenAccountOf(msrm)]})

CallFindFeeDiscountKeys ==
    /\ pc = "idle"
    /\ \E srm \in TokenAccountStates, msrm \in TokenAccountStates :
        /\ op' = "findFeeDiscountKeys"
        /\ args' = [owner |-> Owner, srm |-> srm, msrm |-> msrm]
        /\ ret' = findFeeDiscountKeys(ParsedConnection(Owner, srm, msrm), Owner)
    /\ pc' = "done"
    /\ UNCHANGED derived

(***************************************************************************)
(* The caller                                                              *)
(***************************************************************************)

Init ==
    /\ pc = "idle"
    /\ op = "none"
    /\ args = NoArgs
    /\ ret = NoResult
    /\ derived = {}

\* The caller takes the result and is ready for the next call.
Return ==
    /\ pc = "done"
    /\ pc' = "idle"
    /\ op' = "none"
    /\ args' = NoArgs
    /\ ret' = NoResult
    /\ derived' = {}

Next ==
    \/ CallGetFeeTier
    \/ CallComputeFp32Price
    \/ CallComputeFp32PriceMultipliers
    \/ CallComputeSize
    \/ CallComsumEvents
    \/ CallConsumeEvents
    \/ CallPlaceOrder
    \/ CallPlaceOrderClientId
    \/ CallLegacyNewOrder
    \/ CallSerialize
    \/ CallLegacySerialize
    \/ CallSerializeU8Tag
    \/ CallMarketStateRetrieve
    \/ CallUserAccountRetrieve
    \/ CallCancelOrder
    \/ CallInitializeAccount
    \/ CallSettle
    \/ CallCloseAccount
    \/ CallFindOpenOrdersAccountForOwner
    \/ CallOpenOrdersLoad
    \/ CallCreateMarket
    \/ CallCreateMarketProgramId
    \/ CallFindFeeDiscountKeys
    \/ CallGetInstruction
    \/ Return

Spec == Init /\ [][Next]_vars

(***************************************************************************)
(* Properties                                                              *)
(***************************************************************************)

Called(name) == pc = "done" /\ op = name

\* The SRM thresholds of tiers 0..5 as the specification states them.
TierThresholds == <<0, 100, 1000, 10000, 100000, 1000000>>

\* C2: with msrmBalance < 1 and srmBalance >= 0, getFeeTier returns the tier k
\* in 0..5 with threshold[k] <= srmBalance < threshold[k+1] (threshold[6]
\* infinite); getFeeTier(0, 0) is 0 and an SRM balance of 100 000 gives 4.
C2_TierBetweenThresholds ==
    (Called("getFeeTier") /\ args.msrmBalance < 1 /\ args.srmBalance >= 0) =>
        /\ ret.kind = "value"
        /\ ret.v \in 0..5
        /\ TierThresholds[ret.v + 1] <= args.srmBalance
        /\ ret.v < 5 => args.srmBalance < TierThresholds[ret.v + 2]
        /\ args.srmBalance = 0 => ret.v = 0
        /\ args.srmBalance = 100000 => ret.v = 4

C2_Witness ==
    /\ Called("getFeeTier")
    /\ args = [msrmBalance |-> 0, srmBalance |-> 100000]
    /\ ret = Returned(4)

\* C3: with msrmBalance >= 1, getFeeTier returns tier 6 whatever the SRM
\* balance is (zero, negative, above every threshold).
C3_MsrmGivesTopTier ==
    (Called("getFeeTier") /\ args.msrmBalance >= 1) => ret = Returned(6)

C3_Witness ==
    /\ Called("getFeeTier")
    /\ args = [msrmBalance |-> 1, srmBalance |-> -1]
    /\ ret = Returned(6)

\* C4: with srmBalance < 0 and msrmBalance < 1, getFeeTier rejects the input
\* with an error and returns no tier.
C4_NegativeBalanceRejected ==
    (Called("getFeeTier") /\ args.msrmBalance < 1 /\ args.srmBalance < 0) =>
        ret.kind = "error"

PriceCall == Called("computeFp32Price") \/ Called("computeFp32PriceMultipliers")

\* The scaled price uiPrice x 10^(quoteDecimals - baseDecimals) x
\* baseMultiplier / quoteMultiplier of the recorded call, as a fraction.
ScaledNum ==
    args.n * args.market.baseCurrencyMultiplier
        * Pow10(args.market.quoteDecimals - args.market.baseDecimals)[1]

ScaledDen ==
    args.d * args.market.quoteCurrencyMultiplier
        * Pow10(args.market.quoteDecimals - args.market.baseDecimals)[2]

\* C5: for price >= 0 and tickSize > 0, computeFp32Price returns an exact
\* multiple of tickSize that is at most the unrounded fixed-point value of the
\* scaled price (rounding is down).
C5_PriceMultipleOfTickRoundedDown ==
    (PriceCall /\ args.n >= 0 /\ args.market.tickSize > 0) =>
        /\ ret.kind = "value"
        /\ ret.v % args.market.tickSize = 0
        /\ ret.v * ScaledDen <= ScaledNum * TWO_POW_32

\* 1.5 on a market whose tick is 1.0 comes out as 1.0.
C5_Witness ==
    /\ Called("computeFp32PriceMultipliers")
    /\ args.n = 3 /\ args.d = 2
    /\ args.market.tickSize = TWO_POW_32
    /\ args.market.quoteDecimals = args.market.baseDecimals
    /\ args.market.baseCurrencyMultiplier = args.market.quoteCurrencyMultiplier
    /\ ret = Returned(TWO_POW_32)

\* C6: the tick rounding is the last step of computeFp32Price: the result is
\* the greatest multiple of tickSize not exceeding the fixed-point value of
\* the scaled price, nothing being scaled after the remainder is subtracted.
C6_GreatestMultipleOfTick ==
    (PriceCall /\ args.n >= 0 /\ args.market.tickSize > 0) =>
        /\ ret.kind = "value"
        /\ ret.v % args.market.tickSize = 0
        /\ ret.v * ScaledDen <= ScaledNum * TWO_POW_32
        /\ (ret.v + args.market.tickSize) * ScaledDen > ScaledNum * TWO_POW_32

\* C7: for size >= 0 and minOrderSize > 0, computeSize returns size minus
\* size mod minOrderSize, an exact multiple of minOrderSize at most size.
C7_SizeMultipleOfMinOrderSize ==
    (Called("computeSize") /\ args.n >= 0 /\ args.market.minOrderSize > 0) =>
        /\ ret.kind = "value"
        /\ ret.v % args.market.minOrderSize = 0
        /\ ret.v * args.d <= args.n
        /\ ret.v * args.d = args.n - (args.n % (args.market.minOrderSize * args.d))

C7_Witness ==
    /\ Called("computeSize")
    /\ args.n = 5 /\ args.d = 1
    /\ args.market.minOrderSize = 3
    /\ ret = Returned(3)

\* C8: computeFp32Price on a market whose tickSize is 0 and computeSize on a
\* market whose minOrderSize is 0 each fail with an error.
C8_ZeroDivisorFails ==
    (\/ PriceCall /\ args.market.tickSize = 0
     \/ Called("computeSize") /\ args.market.minOrderSize = 0) =>
        ret.kind = "error"

\* C9: computeFp32Price with a negative price and computeSize with a negative
\* size are rejected with an error.
C9_NegativeInputRejected ==
    ((PriceCall \/ Called("computeSize")) /\ args.n < 0) => ret.kind = "error"

\* The user-account roles of a ConsumeEvents instruction: those after the
\* four fixed roles.
UserRoles(instruction) == SubSeq(instruction.keys, 5, Len(instruction.keys))

AscendingByBytes(roles) ==
    \A i, j \in 1..Len(roles) :
        i < j => BufferCompare(toBuffer(roles[i].pubkey), toBuffer(roles[j].pubkey)) <= 0

\* C1: whatever the order of the list passed to the consumeEvents binding, the
\* user-account roles of the emitted instruction are in ascending order of
\* their raw 32-byte addresses.
C1_UserAccountsSorted ==
    (Called("comsumEvents") \/ Called("consumeEvents")) =>
        ret.kind = "value" /\ AscendingByBytes(UserRoles(ret.v))

NewOrderCall ==
    Called("placeOrder") \/ Called("placeOrderClientId") \/ Called("legacyNewOrder")

\* The number of account roles a NewOrder instruction has before the
\* optional one: twelve in raw_instructions.ts, fourteen in instructions.ts.
FixedNewOrderRoles == IF op = "legacyNewOrder" THEN 14 ELSE 12

SerializeCall ==
    Called("serialize") \/ Called("legacySerialize") \/ Called("serializeU8Tag")

\* The schema and the instance of the recorded serialize call.
CalledSchema ==
    CASE op = "serialize" -> RawSchema(args.class)
      [] op = "legacySerialize" -> legacyInstructions[args.class].schema
      [] op = "serializeU8Tag" -> rawInstructionsU8Tag[args.class].schema

CalledInstruction ==
    CASE op = "serialize" -> RawInstruction(args.class, args.obj)
      [] op = "legacySerialize" -> NewInstruction(legacyInstructions[args.class], args.obj)
      [] op = "serializeU8Tag" -> NewInstruction(rawInstructionsU8Tag[args.class], args.obj)

\* The tags of the nine operations.
OperationTags ==
    [createMarket |-> 0, newOrder |-> 1, cancelOrder |-> 2, consumeEvents |-> 3,
     settle |-> 4, initializeAccount |-> 5, sweepFees |-> 6, closeAccount |-> 7,
     closeMarket |-> 8]

\* The tag of the recorded operation as width little-endian bytes.
TagBytes(width) == <<OperationTags[args.class]>> \o Zeros(width - 1)

\* C11: in each of the three codec versions the instance of an operation
\* carries the tag of that operation (0..8, pairwise distinct) whatever the
\* caller's object holds, its tag field included; the tag is the first field
\* of the schema and the first bytes of every payload produced.
C11_TagFixedDistinctFirst ==
    /\ \A a, b \in Operations : a # b => OperationTags[a] # OperationTags[b]
    /\ SerializeCall =>
        /\ CalledSchema[1][1] = "tag"
        /\ FieldBytes(CalledSchema[1], CalledInstruction.tag)
               = TagBytes(CalledSchema[1][3])
        /\ ret.kind = "value" =>
               SubSeq(ret.v, 1, CalledSchema[1][3]) = TagBytes(CalledSchema[1][3])

\* CancelOrder of raw_instructions.ts built from an object whose tag is 9:
\* the payload starts with the eight bytes of 2.
C11_Witness ==
    /\ Called("serialize")
    /\ args.class = "cancelOrder"
    /\ args.obj.tag = BN(9)
    /\ ret.kind = "value"
    /\ SubSeq(ret.v, 1, 8) = <<2, 0, 0, 0, 0, 0, 0, 0>>

\* The wire-format table: the fields after the tag, by operation.
WireTable ==
    [createMarket |->
        << <<"signerNonce", "u64", 8>>, <<"minBaseOrderSize", "u64", 8>>,
           <<"tickSize", "u64", 8>>, <<"crankerReward", "u64", 8>>,
           <<"feeTierThresholds", "u64s", 48>>,
           <<"feeTierTakerBpsRates", "u64s", 56>>,
           <<"feeTierMakerBpsRebates", "u64s", 56>> >>,
     newOrder |->
        << <<"limitPrice", "u64", 8>>, <<"maxBaseQty", "u64", 8>>,
           <<"maxQuoteQty", "u64", 8>>, <<"matchLimit", "u64", 8>>,
           <<"side", "u8", 1>>, <<"orderType", "u8", 1>>,
           <<"selfTradeBehavior", "u8", 1>>, <<"padding", "array", 5>> >>,
     cancelOrder |-> << <<"orderIndex", "u64", 8>>, <<"orderId", "u128", 16>> >>,
     consumeEvents |-> << <<"maxIterations", "u64", 8>> >>,
     settle |-> <<>>,
     initializeAccount |-> << <<"market", "array", 32>>, <<"maxOrders", "u64", 8>> >>,
     sweepFees |-> <<>>,
     closeAccount |-> <<>>,
     closeMarket |-> <<>>]

RECURSIVE WidthSum(_, _)
WidthSum(schema, n) == IF n = 0 THEN 0 ELSE schema[n][3] + WidthSum(schema, n - 1)

\* The caller's object under the field names of the table: instructions.ts
\* spells two of them differently and holds signerNonce as a number.
TableObject ==
    IF op = "legacySerialize"
    THEN [args.obj EXCEPT !.maxIterations = args.obj.maxIteration,
                          !.selfTradeBehavior = args.obj.selfTradeBehaviour,
                          !.signerNonce = BN(args.obj.signerNonce)]
    ELSE args.obj

\* The payload of the recorded call is its tag, then the caller's values in
\* the order and widths of the table.
PayloadFollowsTable ==
    ret.kind = "value" =>
        /\ ret.v = TagBytes(CalledSchema[1][3])
                       \o SerializeFrom(WireTable[args.class], TableObject, 1)
        /\ Len(ret.v) = CalledSchema[1][3]
                            + WidthSum(WireTable[args.class], Len(WireTable[args.class]))

\* C12 as stated: every payload of every codec version follows the table.
C12_EveryPayloadFollowsTable == SerializeCall => PayloadFollowsTable

\* C12, amended: every payload of raw_instructions.ts (the codec bindings.ts
\* imports, whose tag is a u64) follows the table, so that its length depends
\* on the operation alone.
C12_RawPayloadFollowsTable == Called("serialize") => PayloadFollowsTable

\* NewOrder with the greatest limitPrice: 8 + 4 x 8 + 3 + 5 bytes.
C12_Witness ==
    /\ Called("serialize")
    /\ args.class = "newOrder"
    /\ args.field = "limitPrice" /\ args.obj.limitPrice = U64_MAX
    /\ ret.kind = "value"
    /\ Len(ret.v) = 48
    /\ SubSeq(ret.v, 9, 16) = Ones(8)
    /\ SubSeq(ret.v, 41, 48) = <<1, 3, 2, 0, 0, 0, 0, 0>>

\* A value of the field at position i of the schema does not fit its width.
Overflows(field, value) ==
    CASE field[2] = "u8" -> value >= ByteBase
      [] field[2] \in {"u64", "u128"} ->
            \E k \in (field[3] + 1)..Len(value.le) : value.le[k] # 0
      [] OTHER -> FALSE

\* The bytes of the payload at field i of the schema hold this value exactly.
HoldsExactly(payload, schema, i, value) ==
    LET bytes == SubSeq(payload, WidthSum(schema, i - 1) + 1, WidthSum(schema, i))
    IN  CASE schema[i][2] = "u8" -> bytes = <<value>>
          [] schema[i][2] \in {"u64", "u128"} -> BNFromLE(bytes) = value
          [] OTHER -> TRUE

\* C13: serializing an instance in which a u8, u64 or u128 field holds a
\* value of 2^8, 2^64 or 2^128 or more fails with an error, and every payload
\* produced holds each such field's value exactly.
C13_OverflowFailsNoWrap ==
    (SerializeCall \/ Called("legacyNewOrder")) =>
        LET schema == IF op = "legacyNewOrder" THEN legacyNewOrderInstructionSchema
                      ELSE CalledSchema
            self == IF op = "legacyNewOrder"
                    THEN [tag |-> 1, side |-> args.side, limitPrice |-> args.limitPrice,
                          maxBaseQty |-> BN(1), maxQuoteQty |-> BN(1),
                          orderType |-> args.type, selfTradeBehaviour |-> 0,
                          matchLimit |-> BN(1)]
                    ELSE CalledInstruction
            payload == IF op = "legacyNewOrder" THEN ret.v.data ELSE ret.v
        IN  /\ (\E i \in 1..Len(schema) : Overflows(schema[i], self[schema[i][1]]))
                   => ret.kind = "error"
            /\ ret.kind = "value" =>
                   \A i \in 1..Len(schema) :
                       HoldsExactly(payload, schema, i, self[schema[i][1]])

\* CancelOrder with an orderId of 2^128 fails, and with 2^128 - 1 it is
\* written as sixteen full bytes.
C13_Witness ==
    /\ Called("serialize")
    /\ args.class = "cancelOrder"
    /\ args.field = "orderId"
    /\ \/ args.obj.orderId = BNFromLE(Zeros(16) \o <<1>>) /\ ret.kind = "error"
       \/ args.obj.orderId = U128_MAX /\ ret.kind = "value"
                                      /\ SubSeq(ret.v, 17, 32) = Ones(16)

(***************************************************************************)
(* The account decoders                                                    *)
(***************************************************************************)

RetrieveCall == pc = "done" /\ op \in {"MarketState.retrieve", "UserAccount.retrieve"}

\* What the record holds for a field of the buffer: the tag and the nonce
\* as numbers, an address as a PublicKey, anything else as it was read.
AddressFields ==
    {"baseMint", "quoteMint", "baseVault", "quoteVault", "orderbook", "admin",
     "market", "owner"}

Expected(field, value) ==
    CASE field \in {"tag", "signerNonce"} -> toNumber(value)
      [] field \in AddressFields -> PublicKey(value)
      [] OTHER -> value

\* C14: decoding a buffer built field by field in the account's layout
\* returns a record in which every field of the layout (the padding aside)
\* is present and equals the value at its position in the buffer:
\* accumulatedMakerBaseVolume of the user account included.
C14_DecodeReconstructs ==
    (RetrieveCall /\ args.shape = "exact" /\ ~ToNumberThrows(args.wire.tag))
        => /\ ret.kind = "value"
           /\ \A field \in DOMAIN args.wire \ {"_padding"} :
                /\ field \in DOMAIN ret.v
                /\ ret.v[field] = Expected(field, args.wire[field])

\* C15: a market or user-account buffer that lacks the last byte, or the
\* last bytes, of the record it encodes is not decoded: retrieve throws.
C15_ShortBufferFails ==
    (RetrieveCall /\ args.shape \in {"head4", "cut1", "cut9"}) => ret.kind = "error"

\* A user account with no orders lacks the last byte of its order count.
C15_Witness ==
    /\ RetrieveCall
    /\ op = "UserAccount.retrieve"
    /\ args.shape = "cut1"
    /\ args.wire.orders = <<>>
    /\ args.wire.tag = BN(2)
    /\ ret.kind = "error"

\* C16: a buffer shorter or longer than the record it holds is rejected,
\* for the market and for the user account: bytes after a well-formed
\* record are not ignored.
C16_LengthMismatchRejected ==
    (RetrieveCall /\ args.shape \in {"head4", "cut1", "cut9", "extra1", "extra16"})
        => ret.kind = "error"

\* C17: MarketState.retrieve returns a record only if the tag of the buffer
\* is MarketState (1), UserAccount.retrieve only if it is UserAccount (2).
C17_TagChecked ==
    (RetrieveCall /\ ret.kind = "value")
        => ret.v.tag = (IF op = "MarketState.retrieve" THEN 1 ELSE 2)

\* C18: a missing account and an account with zero-length data are both
\* reported with the outcome of a missing account, and no account with
\* data is.
C18_NotFoundDistinct ==
    RetrieveCall
        => (args.shape \in {"missing", "empty"}
                <=> ret = Thrown("Error: Invalid account provided"))

(***************************************************************************)
(* Address derivation                                                      *)
(***************************************************************************)

\* The derived addresses an operation puts in what it returns: the market
\* signer (settle only) and the user account.
SignerOfCall ==
    IF op = "settle" THEN <<ret.v.keys[5].pubkey>> ELSE <<>>

UserAccountOfCall ==
    CASE op = "placeOrder" -> ret.v.keys[10].pubkey
      [] op = "cancelOrder" -> ret.v.keys[6].pubkey
      [] op = "settle" -> ret.v.keys[6].pubkey
      [] op = "initializeAccount" -> ret.v.keys[2].pubkey
      [] op = "closeAccount" -> ret.v.keys[1].pubkey
      [] op = "findOpenOrdersAccountForOwner" -> ret.v
      [] op = "OpenOrders.load" -> ret.v.address

DerivingOps ==
    {"placeOrder", "cancelOrder", "settle", "initializeAccount", "closeAccount",
     "findOpenOrdersAccountForOwner", "OpenOrders.load"}

MarketOfCall == IF op = "placeOrder" THEN TheMarket.address ELSE args.market
OwnerOfCall == IF op = "placeOrder" THEN Owner ELSE args.owner

\* C19: placeOrder, cancelOrder, settle, initializeAccount, closeAccount,
\* Market.findOpenOrdersAccountForOwner and OpenOrders.load derive the user
\* account from the two seeds (market address, owner address) in that
\* order, and settle derives the market signer from the one seed (market
\* address).
C19_SeedsInOrder ==
    (pc = "done" /\ op \in DerivingOps /\ ret.kind = "value")
        => /\ UserAccountOfCall.t = "pda"
           /\ UserAccountOfCall.seeds
                = <<toBuffer(MarketOfCall), toBuffer(OwnerOfCall)>>
           /\ \A i \in 1..Len(SignerOfCall) :
                /\ SignerOfCall[i].t = "pda"
                /\ SignerOfCall[i].seeds = <<toBuffer(MarketOfCall)>>

\* settle on the second market for the second owner.
C19_Witness ==
    /\ pc = "done"
    /\ op = "settle"
    /\ args.market = UnitKey(20)
    /\ args.owner = UnitKey(21)
    /\ ret.kind = "value"
    /\ ret.v.keys[6].pubkey.seeds = <<toBuffer(UnitKey(20)), toBuffer(UnitKey(21))>>
    /\ ret.v.keys[5].pubkey.seeds = <<toBuffer(UnitKey(20))>>

CreateMarketCall ==
    pc = "done" /\ op \in {"createMarket", "createMarketProgramId"}

\* The account-creating instruction of the first transaction and the
\* CreateMarket instruction, the third of the third.
CreatedMarketAccount == ret.v[1][2][1]
CreateMarketOfCall == ret.v[3][2][3]

\* C20: the signerNonce of the CreateMarket payload that createMarket builds
\* (the eight bytes after the tag) is the bump of the derivation whose seed
\* is the address of the market account createMarket has generated, the
\* first role of the instruction, and whose program id is the one the
\* instruction is addressed to.
C20_NonceIsBumpOfMarketSigner ==
    (CreateMarketCall /\ ret.kind = "value")
        => /\ CreatedMarketAccount.newAccountPubkey = args.marketAccount
           /\ CreateMarketOfCall.keys[1].pubkey = args.marketAccount
           /\ SubSeq(CreateMarketOfCall.data, 9, 16)
                = ToArrayLE(BN(findProgramAddressBump(
                                    <<toBuffer(args.marketAccount)>>,
                                    CreateMarketOfCall.programId)), 8)

\* createMarket of bindings.ts for the second of the keys a Keypair may
\* have: the bump under DEX_ID is in the payload, and it is not the bump of
\* another market account.
C20_Witness ==
    /\ CreateMarketCall
    /\ op = "createMarket"
    /\ args.marketAccount = UnitKey(25)
    /\ ret.kind = "value"
    /\ CreateMarketOfCall.programId = DEX_ID
    /\ CreateMarketOfCall.data[9]
        = findProgramAddressBump(<<toBuffer(UnitKey(25))>>, DEX_ID)
    /\ CreateMarketOfCall.data[9]
        # findProgramAddressBump(<<toBuffer(UnitKey(24))>>, DEX_ID)

(***************************************************************************)
(* Determinism of the derivations                                          *)
(***************************************************************************)

\* A derivation as the caller sees it: the seeds and the program id that
\* were handed to findProgramAddress, the bytes of the address, and the
\* nonce where the operation reads it: <<nonce>>, and NoNonce where it reads
\* [0] only.
NoNonce == <<>>

DerivationOf(address, nonce) ==
    [seeds |-> address.seeds, programId |-> address.programId,
     address |-> toBuffer(address), nonce |-> nonce]

\* The derivations of the call that has just returned: the user account
\* and the market signer of an instruction, and for createMarket the signer
\* the vaults are created for with the nonce of the payload.
DerivationsOfCall ==
    IF pc # "done" \/ ret.kind # "value" THEN {}
    ELSE IF op \in DerivingOps
    THEN {DerivationOf(UserAccountOfCall, NoNonce)}
            \cup {DerivationOf(SignerOfCall[i], NoNonce) : i \in 1..Len(SignerOfCall)}
    ELSE IF op \in {"createMarket", "createMarketProgramId"}
    THEN {DerivationOf(ret.v[3][2][1].keys[3].pubkey, <<CreateMarketOfCall.data[9]>>)}
    ELSE {}

\* The caller takes the result; the derivations of the call, if it made
\* any, replace the ones remembered.
ReturnKeeping ==
    /\ pc = "done"
    /\ pc' = "idle"
    /\ op' = "none"
    /\ args' = NoArgs
    /\ ret' = NoResult
    /\ derived' = IF DerivationsOfCall # {} THEN DerivationsOfCall ELSE derived

\* The deriving operations, and operations that derive nothing in between.
NextDerive ==
    \/ CallGetFeeTier
    \/ CallMarketStateRetrieve
    \/ CallUserAccountRetrieve
    \/ CallPlaceOrder
    \/ CallCancelOrder
    \/ CallInitializeAccount
    \/ CallSettle
    \/ CallCloseAccount
    \/ CallFindOpenOrdersAccountForOwner
    \/ CallOpenOrdersLoad
    \/ CallCreateMarket
    \/ CallCreateMarketProgramId
    \/ ReturnKeeping

SpecDerive == Init /\ [][NextDerive]_vars

C22_UnreadBalanceIsError ==
    (pc = "done" /\ op = "findFeeDiscountKeys"
        /\ (args.srm = "missing" \/ args.msrm = "missing"))
        => ret.kind = "error"

(***************************************************************************)
(* The limit price of an order                                             *)
(***************************************************************************)

\* The limitPrice field of the NewOrder instruction of the recorded call, and
\* what computeFp32Price of the same version gives for the same market and
\* UI price.
LimitPriceOfCall ==
    IF op = "placeOrder" THEN BNFromLE(Slice(ret.v.data, 8, 8))
    ELSE ret.v.fields.limitPrice

Fp32PriceOfCall ==
    IF op = "placeOrder" THEN computeFp32Price(TickMarket(args.tickSize), args.n, args.d)
    ELSE computeFp32PriceMultipliers(args.market, args.n, args.d)

TickSizeOfCall == IF op = "placeOrder" THEN args.tickSize ELSE args.market.tickSize

\* C23: the limitPrice field of the NewOrder instruction placeOrder builds
\* is computeFp32Price(market, limitPrice), hence a multiple of the market's
\* tick size.
C23_LimitPriceIsFp32Price ==
    ((Called("placeOrder") \/ Called("placeOrderClientId")) /\ ret.kind = "value")
        => /\ Fp32PriceOfCall.kind = "value"
           /\ LimitPriceOfCall = BN(Fp32PriceOfCall.v)
           /\ LEValue(LimitPriceOfCall.le) % TickSizeOfCall = 0

(***************************************************************************)
(* The vaults of a created market                                          *)
(***************************************************************************)

\* The two vault-creating instructions of the third transaction, and the
\* market signer of the recorded createMarket call: the address derived from
\* the market account under the program the CreateMarket instruction is
\* addressed to.
CreateBaseVaultOfCall == ret.v[3][2][1]
CreateQuoteVaultOfCall == ret.v[3][2][2]

MarketSignerOfCall ==
    findProgramAddress(<<toBuffer(args.marketAccount)>>, CreateMarketOfCall.programId)

\* C24: in the CreateMarket instruction createMarket builds, the base vault
\* and quote vault roles (the third and fourth) are the associated token
\* addresses of the market signer for the base mint and the quote mint, and
\* they are the accounts the two preceding instructions create, for the
\* market signer as the wallet and for the same mint.
C24_VaultsAreSignerTokenAccounts ==
    (CreateMarketCall /\ ret.kind = "value")
        => /\ CreateMarketOfCall.keys[3].pubkey
                = findAssociatedTokenAddress(MarketSignerOfCall, BaseMint)
           /\ CreateMarketOfCall.keys[4].pubkey
                = findAssociatedTokenAddress(MarketSignerOfCall, QuoteMint)
           /\ CreateBaseVaultOfCall.programId = ASSOCIATED_TOKEN_PROGRAM_ID
           /\ CreateBaseVaultOfCall.keys[2].pubkey = CreateMarketOfCall.keys[3].pubkey
           /\ CreateBaseVaultOfCall.keys[3].pubkey = MarketSignerOfCall
           /\ CreateBaseVaultOfCall.keys[4].pubkey = BaseMint
           /\ CreateQuoteVaultOfCall.programId = ASSOCIATED_TOKEN_PROGRAM_ID
           /\ CreateQuoteVaultOfCall.keys[2].pubkey = CreateMarketOfCall.keys[4].pubkey
           /\ CreateQuoteVaultOfCall.keys[3].pubkey = MarketSignerOfCall
           /\ CreateQuoteVaultOfCall.keys[4].pubkey = QuoteMint

\* createMarket of bindings.ts for the market account UnitKey(24): the two
\* vault roles differ, each is a derived address whose first seed is the
\* market signer under DEX_ID, and the base vault is what the first
\* instruction of the last transaction creates.
C24_Witness ==
    /\ CreateMarketCall
    /\ op = "createMarket"
    /\ args.marketAccount = UnitKey(24)
    /\ ret.kind = "value"
    /\ CreateMarketOfCall.keys[3].pubkey # CreateMarketOfCall.keys[4].pubkey
    /\ CreateMarketOfCall.keys[3].pubkey.t = "pda"
    /\ CreateMarketOfCall.keys[3].pubkey.seeds[1]
        = toBuffer(findProgramAddress(<<toBuffer(UnitKey(24))>>, DEX_ID))
    /\ CreateMarketOfCall.keys[3].pubkey.seeds[3] = toBuffer(BaseMint)
    /\ CreateBaseVaultOfCall.keys[2].pubkey = CreateMarketOfCall.keys[3].pubkey

(***************************************************************************)
(* The user account under the program id of the market                     *)
(***************************************************************************)

\* The Market object the recorded binding was called with, and the address
\* OpenOrders.load reads for its address and the owner of the call.
LoadedMarketOfCall ==
    IF op = "placeOrderClientId" THEN args.market
    ELSE [TheMarket EXCEPT !.address = MarketOfCall]

OwnerOfOrderCall == IF op = "placeOrderClientId" THEN Owner ELSE OwnerOfCall

UserAccountOfOrderCall ==
    IF op = "placeOrderClientId" THEN ret.v.keys[10].pubkey ELSE UserAccountOfCall

OpenOrdersAddressOfCall ==
    OpenOrdersLoad(Connection(LoadedMarketOfCall.address, OwnerOfOrderCall),
                   LoadedMarketOfCall.address, OwnerOfOrderCall).v.address

\* C25: for a Market loaded with any program id, the user account placeOrder,
\* cancelOrder and settle put in their instruction is the address
\* Market.findOpenOrdersAccountForOwner(owner) returns and the address
\* OpenOrders.load reads for the same market and owner, and the instruction
\* is addressed to the program id that address was derived under.
C25_UserAccountSameEverywhere ==
    (pc = "done" /\ op \in {"placeOrder", "placeOrderClientId", "cancelOrder", "settle"}
        /\ ret.kind = "value")
        => /\ UserAccountOfOrderCall
                = findOpenOrdersAccountForOwner(LoadedMarketOfCall, OwnerOfOrderCall)
           /\ UserAccountOfOrderCall = OpenOrdersAddressOfCall
           /\ ret.v.programId = UserAccountOfOrderCall.programId

(***************************************************************************)
(* The range of the fee tier                                               *)
(***************************************************************************)

\* The fee tiers the recorded call has computed: the one getFeeTier returned,
\* or the two of the entries of findFeeDiscountKeys (whose balances may be
\* undefined).
FeeTiersOfCall ==
    IF op = "getFeeTier" THEN {ret.v} ELSE {ret.v[1].feeTier, ret.v[2].feeTier}

\* C26: whatever the balances, negative and non-numeric ones included,
\* getFeeTier returns a tier in 0..6, and getFeeRates of it is defined.
C26_TierInRange ==
    ((Called("getFeeTier") \/ Called("findFeeDiscountKeys")) /\ ret.kind = "value")
        => \A tier \in FeeTiersOfCall :
            /\ tier \in 0..6
            /\ getFeeRates(tier).kind = "value"

(***************************************************************************)
(* Signers                                                                 *)
(***************************************************************************)

\* The roles of the instruction of the recorded call that carry address.
RolesOf(address) ==
    {ret.v.keys[i] : i \in {j \in 1..Len(ret.v.keys) : ret.v.keys[j].pubkey = address}}

\* C27: in every version of the codec, NewOrder, CancelOrder, Settle,
\* InitializeAccount and CloseAccount mark the user owner as signer and the
\* user account as writable and not signer, and SweepFees and CloseMarket
\* mark the market admin as signer.
C27_OwnerAndAdminSign ==
    (Called("getInstruction") /\ ret.kind = "value")
        => /\ args.class \in UserOperations =>
                /\ RolesOf(Roles.userOwner) # {}
                /\ \A role \in RolesOf(Roles.userOwner) : role.isSigner
                /\ RolesOf(Roles.user) # {}
                /\ \A role \in RolesOf(Roles.user) :
                        role.isWritable /\ ~role.isSigner
           /\ args.class \in AdminOperations =>
                /\ RolesOf(Roles.marketAdmin) # {}
                /\ \A role \in RolesOf(Roles.marketAdmin) : role.isSigner

(***************************************************************************)
(* The account list of ConsumeEvents                                       *)
(***************************************************************************)

\* How many times x occurs in the list.
Occurrences(list, x) == Cardinality({i \in 1..Len(list) : list[i] = x})

\* What the recorded binding returns for the same market, reward target and
\* maxIterations and no user account.
ConsumeEventsOfNoAccount ==
    IF op = "comsumEvents"
    THEN comsumEvents(TheMarket, RewardTarget, <<>>, BN(args.maxIterations))
    ELSE consumeEvents(TheMarket, RewardTarget, <<>>, BN(args.maxIterations), 0)

PayloadOf(instruction) ==
    IF op = "comsumEvents" THEN instruction.data ELSE instruction.fields

InstructionsOf(n) == ret.v[n][2]

\* The account an instruction creates: the new account of a createAccount,
\* the associated token account of the associated-token program.
CreatedBy(instruction) ==
    IF "t" \in DOMAIN instruction THEN instruction.newAccountPubkey
    ELSE instruction.keys[2].pubkey

IsAccountCreation(instruction) ==
    IF "t" \in DOMAIN instruction
    THEN instruction.t \in {"createAccount", "aaob.createAccount"}
    ELSE instruction.programId = ASSOCIATED_TOKEN_PROGRAM_ID

\* The accounts created by the instructions that precede CreateMarket.
EarlierInstructions ==
    InstructionsOf(1) \o InstructionsOf(2) \o SubSeq(InstructionsOf(3), 1, 2)

CreatedEarlier ==
    {CreatedBy(EarlierInstructions[i]) : i \in 1..Len(EarlierInstructions)}

\* The order of the returned transactions: the market account, the four
\* order-book accounts and none of the library's create_market, then the
\* base vault, the quote vault and CreateMarket last.
TransactionsInOrder ==
    /\ Len(ret.v) = 3
    /\ Len(InstructionsOf(1)) = 1
    /\ InstructionsOf(1)[1].t = "createAccount"
    /\ InstructionsOf(1)[1].newAccountPubkey = args.marketAccount
    /\ Len(InstructionsOf(2)) = Len(AaobSigners)
    /\ \A i \in 1..Len(InstructionsOf(2)) :
            /\ InstructionsOf(2)[i].t = "aaob.createAccount"
            /\ InstructionsOf(2)[i].newAccountPubkey = AaobSigners[i]
    /\ Len(InstructionsOf(3)) = 3
    /\ CreatedBy(CreateBaseVaultOfCall) = CreateMarketOfCall.keys[3].pubkey
    /\ CreatedBy(CreateQuoteVaultOfCall) = CreateMarketOfCall.keys[4].pubkey
    /\ CreateMarketOfCall.programId = CreatedMarketAccount.programId
    /\ \A i \in 1..Len(EarlierInstructions) : IsAccountCreation(EarlierInstructions[i])
    /\ \A n \in 1..3 : \A i \in 1..Len(InstructionsOf(n)) :
            "t" \in DOMAIN InstructionsOf(n)[i] => InstructionsOf(n)[i].t # "aaob.createMarket"

\* The accounts createMarket is handed and does not create.
GivenAccounts == {MarketAdmin, MetadataAccount}

\* C29 as stated: the transactions are in order and every account of the
\* CreateMarket instruction is created by an earlier instruction.
C29_EveryAccountCreatedEarlier ==
    (CreateMarketCall /\ ret.kind = "value")
        => /\ TransactionsInOrder
           /\ \A i \in 1..Len(CreateMarketOfCall.keys) :
                CreateMarketOfCall.keys[i].pubkey \in CreatedEarlier

\* C29, amended: the transactions are in order, CreateMarket is the last
\* instruction of the last one, the library's create_market is in none, and
\* every account of CreateMarket other than the market admin (and the
\* metadata account of the later version) is created by an earlier
\* instruction.
C29_TransactionsInOrder ==
    (CreateMarketCall /\ ret.kind = "value")
        => /\ TransactionsInOrder
           /\ \A i \in 1..Len(CreateMarketOfCall.keys) :
                \/ CreateMarketOfCall.keys[i].pubkey \in CreatedEarlier
                \/ CreateMarketOfCall.keys[i].pubkey \in GivenAccounts
           /\ \E i \in 1..Len(CreateMarketOfCall.keys) :
                CreateMarketOfCall.keys[i].pubkey = MarketAdmin

\* createMarket of bindings.ts: four order-book accounts are created in the
\* second transaction, the last of them is the orderbook role of
\* CreateMarket, and the admin role is an account no instruction creates.
C29_Witness ==
    /\ CreateMarketCall
    /\ op = "createMarket"
    /\ ret.kind = "value"
    /\ Len(InstructionsOf(2)) = 4
    /\ CreateMarketOfCall.keys[2].pubkey = CreatedBy(InstructionsOf(2)[4])
    /\ CreateMarketOfCall.keys[5].pubkey = MarketAdmin
    /\ MarketAdmin \notin CreatedEarlier

(***************************************************************************)
(* The space of the market account                                         *)
(***************************************************************************)

\* The number of bytes MarketState.schema lays out.
MarketStateSize == WidthSum(MarketStateSchema, Len(MarketStateSchema))

====
